---- MODULE Spec2Model ----
(***************************************************************************)
(* RemoraNotes reminder engine: materialization of reminder rules into     *)
(* dated instances (ReminderMaterializerService), the instance state       *)
(* machine (ReminderService) and the scored, capped Today Queue            *)
(* (TodayQueueService).                                                    *)
(*                                                                         *)
(* Time is counted in ticks, TicksPerDay ticks to a calendar day; tick 0   *)
(* is 00:00 on January 1 of EpochYear.  A Date is a tick number, Unset     *)
(* stands for an absent (undefined) field.                                 *)
(***************************************************************************)
EXTENDS Integers, Sequences, FiniteSets, TLC

\* ------------------------------------------------------------------------
\* Bounds of the model
\* ------------------------------------------------------------------------
TicksPerDay == 2

\* Tick 0 is 00:00 on January 1 of this year.
EpochYear == 2000 + 24

\* An absent (undefined) optional field.
Unset == -1

\* How many ticks the clock may advance in a behaviour.
MaxElapsed == 1

\* How many instance actions the users issue in a behaviour.
MaxUserActions == 2

\* ------------------------------------------------------------------------
\* Program constants
\* ------------------------------------------------------------------------
REMINDER_TYPES == {"birthday", "anniversary", "follow_up", "custom"}
REMINDER_PRIORITIES == {"high", "medium", "low"}
REMINDER_STATUSES == {"pending", "completed", "snoozed", "skipped"}
PLAN_TIERS == {"free", "pro"}

MATERIALIZATION_WINDOW == [free |-> 30, pro |-> 90]
QUEUE_CAPS == [free |-> 10, pro |-> 25]
REMINDER_TYPE_SCORES == [birthday |-> 15, anniversary |-> 12, follow_up |-> 10, custom |-> 8]
PRIORITY_MULTIPLIERS == [high |-> 3, medium |-> 2, low |-> 1]
OVERDUE_PENALTY_PER_DAY == 5
DEFAULT_SNOOZE_DAYS == 1

\* ------------------------------------------------------------------------
\* Date arithmetic (date-fns and the JavaScript Date it wraps)
\* ------------------------------------------------------------------------
Min(a, b) == IF a < b THEN a ELSE b
Max(a, b) == IF a > b THEN a ELSE b

DayOf(t) == t \div TicksPerDay
startOfDay(t) == DayOf(t) * TicksPerDay
endOfDay(t) == startOfDay(t) + TicksPerDay - 1
addDays(t, n) == t + n * TicksPerDay
isBefore(a, b) == a < b
isAfter(a, b) == a > b

\* differenceInDays: the number of full days between two dates, truncated
\* toward zero.
differenceInDays(a, b) ==
  IF a >= b THEN (a - b) \div TicksPerDay ELSE 0 - ((b - a) \div TicksPerDay)

IsLeapYear(y) == (y % 4 = 0 /\ y % 100 # 0) \/ y % 400 = 0
DaysInMonth(y, m) ==
  IF m = 2 THEN (IF IsLeapYear(y) THEN 29 ELSE 28)
  ELSE IF m \in {4, 6, 9, 11} THEN 30 ELSE 31
LeapsBefore(y) == ((y - 1) \div 4) - ((y - 1) \div 100) + ((y - 1) \div 400)
YearStart(y) == 365 * (y - EpochYear) + LeapsBefore(y) - LeapsBefore(EpochYear)

\* Days of a common year before the first of each month.
CumulativeDays == <<0, 31, 59, 90, 120, 151, 181, 212, 243, 273, 304, 334>>
DaysBeforeMonth(y, m) == CumulativeDays[m] + (IF m > 2 /\ IsLeapYear(y) THEN 1 ELSE 0)

\* new Date(y, m - 1, d): a day of the month beyond the month's length
\* rolls over into the following month.
MakeDay(y, m, d) == YearStart(y) + DaysBeforeMonth(y, m) + d - 1

\* The year of day number n, found from the estimate y0 (at most one off).
YearOfDayFrom(n, y0) ==
  IF n >= YearStart(y0 + 1) THEN y0 + 1
  ELSE IF n < YearStart(y0) THEN y0 - 1 ELSE y0
YearOfDay(n) == YearOfDayFrom(n, EpochYear + (n \div 366))

\* The month of the day dayOfYear (from 0) of year y, found from the
\* estimate m0 (at most one short).
MonthOfYearDayFrom(y, dayOfYear, m0) ==
  IF m0 < 12 /\ dayOfYear >= DaysBeforeMonth(y, m0 + 1) THEN m0 + 1 ELSE m0
MonthOfYearDay(y, dayOfYear) == MonthOfYearDayFrom(y, dayOfYear, (dayOfYear \div 32) + 1)

\* The calendar date of day number n: [year, month, date].
CivilOfYearMonth(y, dayOfYear, m) ==
  [year |-> y, month |-> m, date |-> dayOfYear - DaysBeforeMonth(y, m) + 1]
CivilOfYearDay(y, dayOfYear) == CivilOfYearMonth(y, dayOfYear, MonthOfYearDay(y, dayOfYear))
CivilInYear(n, y) == CivilOfYearDay(y, n - YearStart(y))
CivilOfDay(n) == CivilInYear(n, YearOfDay(n))

getFullYear(t) == CivilOfDay(DayOf(t)).year
TimeOfDay(t) == t - startOfDay(t)

\* setYear: Date.setFullYear(year), month and day of month kept (rolling
\* over when the day does not exist in the new year).
WithYear(c, year, timeOfDay) == MakeDay(year, c.month, c.date) * TicksPerDay + timeOfDay
setYear(t, year) == WithYear(CivilOfDay(DayOf(t)), year, TimeOfDay(t))

\* setMonth (month0 is 0-indexed): the day of month is clamped to the
\* length of the target month.
WithMonth(c, month0, timeOfDay) ==
  MakeDay(c.year, month0 + 1, Min(c.date, DaysInMonth(c.year, month0 + 1))) * TicksPerDay
    + timeOfDay
setMonth(t, month0) == WithMonth(CivilOfDay(DayOf(t)), month0, TimeOfDay(t))

\* setDate: Date.setDate(dayOfMonth), rolling over past the month's end.
WithDate(c, dayOfMonth, timeOfDay) ==
  MakeDay(c.year, c.month, dayOfMonth) * TicksPerDay + timeOfDay
setDate(t, dayOfMonth) == WithDate(CivilOfDay(DayOf(t)), dayOfMonth, TimeOfDay(t))

\* Math.floor(a / b) for b > 0
MathFloor(a, b) == a \div b

\* ------------------------------------------------------------------------
\* Recurrence calculator (ReminderMaterializerService, private methods)
\* ------------------------------------------------------------------------

\* A window test that moves a notify date before the window to its start.
KeptInWindowClamping(notifyDate, windowStart, windowEnd) ==
  IF isAfter(notifyDate, windowEnd) THEN <<>> ELSE <<Max(notifyDate, windowStart)>>

\* The inner loop over notifyOffsets: eventDate - offset for every offset, in
\* the order of the offsets, kept when it lies in [windowStart, windowEnd].
KeptInWindow(notifyDate, windowStart, windowEnd) ==
  IF ~isBefore(notifyDate, windowStart) /\ ~isAfter(notifyDate, windowEnd)
  THEN <<notifyDate>>
  ELSE <<>>

RECURSIVE NotifyDates(_, _, _, _)
NotifyDates(eventDate, notifyOffsets, windowStart, windowEnd) ==
  IF notifyOffsets = <<>> THEN <<>>
  ELSE KeptInWindow(addDays(eventDate, 0 - Head(notifyOffsets)), windowStart, windowEnd)
       \o NotifyDates(eventDate, Tail(notifyOffsets), windowStart, windowEnd)

\* The event date of a fixed-date rule in one year.
FixedEventDate(windowStart, year, month, day) ==
  startOfDay(setDate(setMonth(setYear(windowStart, year), month - 1), day))

\* for (const year of [currentYear, currentYear + 1]) { ... }
FixedDateDuesOfYears(month, day, notifyOffsets, currentYear, windowStart, windowEnd) ==
  NotifyDates(FixedEventDate(windowStart, currentYear, month, day),
              notifyOffsets, windowStart, windowEnd)
  \o NotifyDates(FixedEventDate(windowStart, currentYear + 1, month, day),
                 notifyOffsets, windowStart, windowEnd)

computeFixedDateDues(rule, windowStart, windowEnd) ==
  IF rule.fixedDate = <<>> THEN <<>>
  ELSE FixedDateDuesOfYears(rule.fixedDate[1], rule.fixedDate[2], rule.notifyDaysBefore,
                            getFullYear(windowStart), windowStart, windowEnd)

\* The anchor of an interval rule.
AnchorDate(rule, contactInfo) ==
  IF rule.intervalAnchor = "last_contact"
  THEN (IF contactInfo.lastContactedAt = Unset THEN rule.createdAt
        ELSE contactInfo.lastContactedAt)
  ELSE IF rule.intervalAnchor = "custom_date"
  THEN (IF rule.customAnchorDate = Unset THEN rule.createdAt ELSE rule.customAnchorDate)
  ELSE rule.createdAt

\* A first candidate one interval after the anchor, wherever the window is.
FirstDueDateFromAnchor(anchorDate, windowStart, intervalDays) ==
  addDays(anchorDate, intervalDays)

\* The first candidate due date, by integer division.
FirstDueDate(anchorDate, windowStart, intervalDays) ==
  LET daysSinceAnchor == differenceInDays(windowStart, anchorDate)
      intervalsPassed == MathFloor(daysSinceAnchor, intervalDays)
  IN  addDays(anchorDate, (intervalsPassed + 1) * intervalDays)

\* while (isBefore(nextDueDate, windowStart)) nextDueDate += intervalDays
RECURSIVE CatchUp(_, _, _)
CatchUp(nextDueDate, windowStart, intervalDays) ==
  IF isBefore(nextDueDate, windowStart)
  THEN CatchUp(addDays(nextDueDate, intervalDays), windowStart, intervalDays)
  ELSE nextDueDate

\* while (!isAfter(nextDueDate, windowEnd)) { emit offsets; advance }
RECURSIVE EmitDues(_, _, _, _, _)
EmitDues(nextDueDate, intervalDays, notifyOffsets, windowStart, windowEnd) ==
  IF isAfter(nextDueDate, windowEnd) THEN <<>>
  ELSE NotifyDates(nextDueDate, notifyOffsets, windowStart, windowEnd)
       \o EmitDues(addDays(nextDueDate, intervalDays), intervalDays, notifyOffsets,
                   windowStart, windowEnd)

computeFollowUpDues(rule, windowStart, windowEnd, contactInfo) ==
  IF rule.intervalDays = 0 THEN <<>>
  ELSE LET anchorDate == startOfDay(AnchorDate(rule, contactInfo))
           first == CatchUp(FirstDueDate(anchorDate, windowStart, rule.intervalDays),
                            windowStart, rule.intervalDays)
       IN  EmitDues(first, rule.intervalDays, rule.notifyDaysBefore, windowStart, windowEnd)

\* switch (rule.type): birthday and anniversary are fixed dates, follow_up
\* is an interval, custom is a fixed date if it has one, else an interval
\* if it has one.
computeDueDates(rule, windowStart, windowEnd, contactInfo) ==
  IF \/ rule.type \in {"birthday", "anniversary"}
     \/ (rule.type = "custom" /\ rule.fixedDate # <<>>)
  THEN computeFixedDateDues(rule, windowStart, windowEnd)
  ELSE IF \/ rule.type = "follow_up"
          \/ (rule.type = "custom" /\ rule.intervalDays # 0)
  THEN computeFollowUpDues(rule, windowStart, windowEnd, contactInfo)
  ELSE <<>>

\* generateInstanceKey: `${ruleId}:${format(dueDate, 'yyyy-MM-dd')}`, the rule
\* id and the calendar day of the due date (its time of day is dropped).
generateInstanceKey(ruleId, dueDate) == <<ruleId, DayOf(dueDate)>>

\* ------------------------------------------------------------------------
\* State
\* ------------------------------------------------------------------------
VARIABLES
  now,          \* the clock read by new Date()
  rules,        \* ReminderRule collection: rule id -> document
  contacts,     \* Contact collection: contact id -> document
  instances,    \* ReminderInstance collection: a set of documents
  procs,        \* materialization calls in flight, one per caller
  ret,          \* what the operation that completed last returned
  userActions,  \* the number of instance actions issued so far
  closedKeys    \* history: the instance keys that reached completed or skipped

vars == <<now, rules, contacts, instances, procs, ret, userActions, closedKeys>>

Users == {"u1", "u2"}
RuleIds == <<"r1", "r2", "r3", "r4", "r5">>
ContactIds == {"c1", "c2", "c3"}
Procs == {"request1", "request2"}

\* An absent string field.
Undefined == "undefined"

NoReturn == [op |-> "none"]
Idle == [pc |-> "idle"]

\* ------------------------------------------------------------------------
\* The instance collection and its upsert
\* ------------------------------------------------------------------------

\* One staged bulk operation: updateOne({instanceKey}, {$setOnInsert, $set},
\* {upsert: true}).
StagedOp(rule, userId, contactName, dueDate, t) ==
  LET instanceKey == generateInstanceKey(rule.id, dueDate)
  IN  [filter |-> [instanceKey |-> instanceKey],
       setOnInsert |-> [ruleId |-> rule.id,
                        userId |-> userId,
                        contactId |-> rule.contactId,
                        instanceKey |-> instanceKey,
                        dueDate |-> dueDate,
                        status |-> "pending",
                        type |-> rule.type,
                        priority |-> rule.priority,
                        contactName |-> contactName,
                        customTitle |-> rule.customTitle,
                        createdAt |-> t],
       set |-> [updatedAt |-> t]]

RECURSIVE StageDueDates(_, _, _, _, _)
StageDueDates(rule, userId, contactName, dueDates, t) ==
  IF dueDates = <<>> THEN <<>>
  ELSE <<StagedOp(rule, userId, contactName, Head(dueDates), t)>>
       \o StageDueDates(rule, userId, contactName, Tail(dueDates), t)

\* A fresh ObjectId.  Ids are opaque, so a document is named by its instance
\* key and a copy number that no stored document of that key carries.
FreshId(store, instanceKey) ==
  LET copies == {i.id[2] : i \in {j \in store : j.instanceKey = instanceKey}}
  IN  <<instanceKey, IF copies = {} THEN 0
                     ELSE 1 + (CHOOSE n \in copies : \A m \in copies : m <= n)>>

\* An id no document carries.
NoSuchId == <<<<"none", 0>>, 0>>

\* The document an upsert inserts: $setOnInsert and $set; the
\* action-tracking fields stay absent.
InsertedDoc(op, id) ==
  [id |-> id,
   ruleId |-> op.setOnInsert.ruleId,
   userId |-> op.setOnInsert.userId,
   contactId |-> op.setOnInsert.contactId,
   instanceKey |-> op.setOnInsert.instanceKey,
   dueDate |-> op.setOnInsert.dueDate,
   status |-> op.setOnInsert.status,
   completedAt |-> Unset,
   snoozedUntil |-> Unset,
   skippedAt |-> Unset,
   type |-> op.setOnInsert.type,
   priority |-> op.setOnInsert.priority,
   contactName |-> op.setOnInsert.contactName,
   customTitle |-> op.setOnInsert.customTitle,
   createdAt |-> op.setOnInsert.createdAt,
   updatedAt |-> op.set.updatedAt]
\* An update that writes the $setOnInsert fields as well.
UpdatedDocResetting(doc, op) ==
  [f \in DOMAIN doc |->
     IF f \in DOMAIN op.set THEN op.set[f]
     ELSE IF f \in DOMAIN op.setOnInsert THEN op.setOnInsert[f]
     ELSE doc[f]]

\* What an upsert does to a document its filter matched: $set only.
UpdatedDoc(doc, op) ==
  [f \in DOMAIN doc |-> IF f \in DOMAIN op.set THEN op.set[f] ELSE doc[f]]

\* A filter that finds no stored document.
FilterMatchesNothing(store, op) == {}

\* A filter on the rule alone: any stored document of the rule matches.
FilterMatchesRule(store, op) == {i \in store : i.ruleId = op.setOnInsert.ruleId}

\* The documents the filter of an operation matches.
FilterMatches(store, op) == {i \in store : i.instanceKey = op.filter.instanceKey}

\* A collection without the unique index.
NoUniqueIndex(store, instanceKey) == TRUE

\* The unique index on instanceKey: may a document with this key be inserted?
UniqueIndexAllows(store, instanceKey) == \A i \in store : i.instanceKey # instanceKey

\* The document an update of one document picks among those matched.
FirstDoc(docs) == CHOOSE i \in docs : \A j \in docs : i.id[2] <= j.id[2]

\* An upsert that first removes the instances of the rule stored under
\* another key.
UpsertOneReplacing(acc, op) ==
  LET kept == {i \in acc.store : ~(/\ i.ruleId = op.setOnInsert.ruleId
                                     /\ i.instanceKey # op.filter.instanceKey)}
      hit == FilterMatches(kept, op)
  IN  IF hit # {}
      THEN [store |-> (kept \ {FirstDoc(hit)}) \cup {UpdatedDoc(FirstDoc(hit), op)},
            upserted |-> acc.upserted,
            modified |-> acc.modified + 1]
      ELSE [store |-> kept \cup {InsertedDoc(op, FreshId(kept, op.filter.instanceKey))},
            upserted |-> acc.upserted + 1,
            modified |-> acc.modified]

\* One upsert, run without interference: [store, upserted, modified].
UpsertOne(acc, op) ==
  LET hit == FilterMatches(acc.store, op)
  IN  IF hit # {}
      THEN LET old == FirstDoc(hit)
               new == UpdatedDoc(old, op)
           IN  [store |-> (acc.store \ {old}) \cup {new},
                upserted |-> acc.upserted,
                modified |-> acc.modified + (IF new = old THEN 0 ELSE 1)]
      ELSE [store |-> acc.store
                        \cup {InsertedDoc(op, FreshId(acc.store, op.filter.instanceKey))},
            upserted |-> acc.upserted + 1,
            modified |-> acc.modified]

\* ReminderInstance.bulkWrite(bulkOps, {ordered: false}) run without
\* interference.
RECURSIVE BulkWrite(_, _)
BulkWrite(acc, bulkOps) ==
  IF bulkOps = <<>> THEN acc
  ELSE BulkWrite(UpsertOne(acc, Head(bulkOps)), Tail(bulkOps))

\* ------------------------------------------------------------------------
\* Materializer: what each entry point reads and stages
\* ------------------------------------------------------------------------
\* The order in which find() returns rules: the order of their creation.
InFindOrder(S) == SelectSeq(RuleIds, LAMBDA r : r \in S)

WindowStart(t) == startOfDay(t)
WindowEnd(t, plan) == addDays(WindowStart(t), MATERIALIZATION_WINDOW[plan])

ContactInfo(contactId, contact) ==
  [contactId |-> contactId, lastContactedAt |-> contact.lastContactedAt]

\* The operations staged for one rule whose contact was found.
StageRuleOps(rule, userId, contactId, contact, contactName, plan, t) ==
  StageDueDates(rule, userId, contactName,
                computeDueDates(rule, WindowStart(t), WindowEnd(t, plan),
                                ContactInfo(contactId, contact)),
                t)

\* A turn of the loop that passes over a rule without contact in silence.
StageUserRuleSilent(rule, rest, userId, plan, contactDocs, t) ==
  IF ~(/\ rule.contactId \in DOMAIN contactDocs
       /\ contactDocs[rule.contactId].userId = userId)
  THEN [rulesProcessed |-> rest.rulesProcessed + 1,
        errors |-> rest.errors,
        bulkOps |-> rest.bulkOps]
  ELSE [rulesProcessed |-> rest.rulesProcessed + 1,
        errors |-> rest.errors,
        bulkOps |-> StageRuleOps(rule, userId, rule.contactId,
                                 contactDocs[rule.contactId],
                                 contactDocs[rule.contactId].name, plan, t)
                    \o rest.bulkOps]

\* materializeUser, the loop over the rules found: the contact map holds the
\* contacts of the user, selected with their name.
\* One turn of the loop, for a rule, given what the turns after it stage.
StageUserRule(rule, rest, userId, plan, contactDocs, t) ==
  IF ~(/\ rule.contactId \in DOMAIN contactDocs
       /\ contactDocs[rule.contactId].userId = userId)
  THEN [rulesProcessed |-> rest.rulesProcessed + 1,
        errors |-> <<[ruleId |-> rule.id, error |-> "Contact not found"]>> \o rest.errors,
        bulkOps |-> rest.bulkOps]
  ELSE [rulesProcessed |-> rest.rulesProcessed + 1,
        errors |-> rest.errors,
        bulkOps |-> StageRuleOps(rule, userId, rule.contactId,
                                 contactDocs[rule.contactId],
                                 contactDocs[rule.contactId].name, plan, t)
                    \o rest.bulkOps]

RECURSIVE StageUserRules(_, _, _, _, _, _)
StageUserRules(ruleIds, userId, plan, ruleDocs, contactDocs, t) ==
  IF ruleIds = <<>> THEN [rulesProcessed |-> 0, errors |-> <<>>, bulkOps |-> <<>>]
  ELSE StageUserRule(ruleDocs[Head(ruleIds)],
                     StageUserRules(Tail(ruleIds), userId, plan, ruleDocs, contactDocs, t),
                     userId, plan, contactDocs, t)

Staged(userId, st) ==
  [userId |-> userId, rulesProcessed |-> st.rulesProcessed,
   errors |-> st.errors, bulkOps |-> st.bulkOps]

StageUser(userId, plan, ruleDocs, contactDocs, t) ==
  Staged(userId,
         StageUserRules(InFindOrder({r \in DOMAIN ruleDocs :
                                       ruleDocs[r].userId = userId /\ ruleDocs[r].isActive}),
                        userId, plan, ruleDocs, contactDocs, t))

\* materializeRule: the rule by id, its contact by id; the contact is
\* selected without its name, so contact.name is undefined.
StageRule(ruleId, plan, ruleDocs, contactDocs, t) ==
  IF ruleId \notin DOMAIN ruleDocs
  THEN [userId |-> "", rulesProcessed |-> 0,
        errors |-> <<[ruleId |-> ruleId, error |-> "Rule not found"]>>, bulkOps |-> <<>>]
  ELSE LET rule == ruleDocs[ruleId]
       IN  IF rule.contactId \notin DOMAIN contactDocs
           THEN [userId |-> rule.userId, rulesProcessed |-> 1,
                 errors |-> <<[ruleId |-> ruleId, error |-> "Contact not found"]>>,
                 bulkOps |-> <<>>]
           ELSE [userId |-> rule.userId, rulesProcessed |-> 1, errors |-> <<>>,
                 bulkOps |-> StageRuleOps(rule, rule.userId, rule.contactId,
                                          contactDocs[rule.contactId], Undefined, plan, t)]

\* rematerializeForContact, the loop over the active follow_up rules of the
\* contact.
StageContactRule(rule, rest, contactId, contact, plan, t) ==
  [rulesProcessed |-> rest.rulesProcessed + 1,
   errors |-> rest.errors,
   bulkOps |-> StageRuleOps(rule, rule.userId, contactId, contact, Undefined, plan, t)
               \o rest.bulkOps]

RECURSIVE StageContactRules(_, _, _, _, _, _)
StageContactRules(ruleIds, contactId, contact, plan, ruleDocs, t) ==
  IF ruleIds = <<>> THEN [rulesProcessed |-> 0, errors |-> <<>>, bulkOps |-> <<>>]
  ELSE StageContactRule(ruleDocs[Head(ruleIds)],
                        StageContactRules(Tail(ruleIds), contactId, contact, plan,
                                          ruleDocs, t),
                        contactId, contact, plan, t)

StageContact(contactId, plan, ruleDocs, contactDocs, t) ==
  IF contactId \notin DOMAIN contactDocs
  THEN [userId |-> "", rulesProcessed |-> 0,
        errors |-> <<[ruleId |-> contactId, error |-> "Contact not found"]>>,
        bulkOps |-> <<>>]
  ELSE Staged(contactDocs[contactId].userId,
              StageContactRules(InFindOrder({r \in DOMAIN ruleDocs :
                                               /\ ruleDocs[r].contactId = contactId
                                               /\ ruleDocs[r].type = "follow_up"
                                               /\ ruleDocs[r].isActive}),
                                contactId, contactDocs[contactId], plan, ruleDocs, t))

\* What a call stages, by entry point.
Stage(kind, arg, plan, ruleDocs, contactDocs, t) ==
  IF kind = "materializeUser" THEN StageUser(arg, plan, ruleDocs, contactDocs, t)
  ELSE IF kind = "materializeRule" THEN StageRule(arg, plan, ruleDocs, contactDocs, t)
  ELSE StageContact(arg, plan, ruleDocs, contactDocs, t)

MaterializationResult(st, upserted, modified) ==
  [userId |-> st.userId,
   rulesProcessed |-> st.rulesProcessed,
   instancesCreated |-> upserted,
   instancesUpdated |-> modified,
   errors |-> st.errors]

\* ------------------------------------------------------------------------
\* Initial data
\* ------------------------------------------------------------------------
Tick(y, m, d, timeOfDay) == MakeDay(y, m, d) * TicksPerDay + timeOfDay

StartTick == Tick(EpochYear, 2, 10, 0)

\* user.plan, which every caller passes as the plan of a call.
UserPlan == [u1 |-> "free", u2 |-> "pro"]

Rule(id, userId, contactId, type, fixedDate, intervalDays, intervalAnchor, priority, notifyDaysBefore, createdAt) ==
  [id |-> id, userId |-> userId, contactId |-> contactId, type |-> type,
   fixedDate |-> fixedDate, intervalDays |-> intervalDays,
   intervalAnchor |-> intervalAnchor, customAnchorDate |-> Unset,
   priority |-> priority, isActive |-> TRUE, notifyDaysBefore |-> notifyDaysBefore,
   customTitle |-> Undefined, createdAt |-> createdAt]

\* r1: follow up with c1 every 30 days, notified on the day and a week
\* before; r2: the birthday of c2; r3: a rule whose contact c3 was deleted.
InitRules ==
  [r \in {"r1", "r2", "r3"} |->
     IF r = "r1"
     THEN Rule("r1", "u1", "c1", "follow_up", <<>>, 30, "last_contact", "high",
               <<0, 7>>, Tick(EpochYear, 1, 5, 1))
     ELSE IF r = "r2"
     THEN Rule("r2", "u2", "c2", "birthday", <<2, 10>>, 0, "last_contact", "medium",
               <<0>>, Tick(EpochYear, 1, 5, 1))
     ELSE Rule("r3", "u1", "c3", "follow_up", <<>>, 14, "last_contact", "medium",
               <<0>>, Tick(EpochYear, 1, 11, 0))]

InitContacts ==
  [c \in {"c1", "c2"} |->
     IF c = "c1"
     THEN [userId |-> "u1", name |-> "Ann", lastContactedAt |-> Tick(EpochYear, 1, 18, 1)]
     ELSE [userId |-> "u2", name |-> "Bob", lastContactedAt |-> Unset]]

Init ==
  /\ now = StartTick
  /\ rules = InitRules
  /\ contacts = InitContacts
  /\ instances = {}
  /\ procs = [p \in Procs |-> Idle]
  /\ ret = NoReturn
  /\ userActions = 0
  /\ closedKeys = {}

\* ------------------------------------------------------------------------
\* Materializer entry points, each run to completion without interference
\* ------------------------------------------------------------------------
\* The call, given what it staged (st) and what bulkWrite made of it (w).
MaterializeWritten(kind, arg, plan, st, w) ==
  /\ instances' = w.store
  /\ ret' = [op |-> kind, arg |-> arg, plan |-> plan,
             windowStart |-> WindowStart(now),
             result |-> MaterializationResult(st, w.upserted, w.modified)]
  /\ UNCHANGED <<now, rules, contacts, procs, userActions, closedKeys>>

MaterializeStaged(kind, arg, plan, st) ==
  MaterializeWritten(kind, arg, plan, st,
                     BulkWrite([store |-> instances, upserted |-> 0, modified |-> 0],
                               st.bulkOps))

Materialize(kind, arg, plan) ==
  MaterializeStaged(kind, arg, plan, Stage(kind, arg, plan, rules, contacts, now))

materializeUser(userId, plan) == Materialize("materializeUser", userId, plan)

materializeRule(ruleId, plan) == Materialize("materializeRule", ruleId, plan)

rematerializeForContact(contactId, plan) ==
  Materialize("rematerializeForContact", contactId, plan)

\* ------------------------------------------------------------------------
\* Instance state machine (ReminderService): single conditional updates
\* ------------------------------------------------------------------------
\* A completion filter without the owner.
MarkDoneFilterAnyOwner(i, instanceId, userId) ==
  i.id = instanceId /\ i.status \in {"pending", "snoozed"}

MarkDoneFilter(i, instanceId, userId) ==
  i.id = instanceId /\ i.userId = userId /\ i.status \in {"pending", "snoozed"}

\* A completion that leaves snoozedUntil in place.
MarkDoneUpdateKeepingSnooze(i, t) ==
  [i EXCEPT !.status = "completed", !.completedAt = t, !.updatedAt = t]

MarkDoneUpdate(i, t) ==
  [i EXCEPT !.status = "completed", !.completedAt = t, !.snoozedUntil = Unset,
            !.updatedAt = t]

\* A snooze filter that also accepts a snoozed instance.
SnoozeFilterAnyActive(i, instanceId, userId) ==
  i.id = instanceId /\ i.userId = userId /\ i.status \in {"pending", "snoozed"}

SnoozeFilter(i, instanceId, userId) ==
  i.id = instanceId /\ i.userId = userId /\ i.status = "pending"
SnoozeUpdate(i, snoozedUntil, t) ==
  [i EXCEPT !.status = "snoozed", !.snoozedUntil = snoozedUntil, !.updatedAt = t]

UnsnoozeFilter(i, instanceId, userId) ==
  i.id = instanceId /\ i.userId = userId /\ i.status = "snoozed"
UnsnoozeUpdate(i, t) ==
  [i EXCEPT !.status = "pending", !.snoozedUntil = Unset, !.updatedAt = t]

\* A skip filter without the guard on the current status.
SkipFilterUnguarded(i, instanceId, userId) ==
  i.id = instanceId /\ i.userId = userId

SkipFilter(i, instanceId, userId) ==
  i.id = instanceId /\ i.userId = userId /\ i.status \in {"pending", "snoozed"}
SkipUpdate(i, t) ==
  [i EXCEPT !.status = "skipped", !.skippedAt = t, !.snoozedUntil = Unset,
            !.updatedAt = t]

\* findOneAndUpdate(filter, update, {new: true}): the documents matched and
\* what the update makes of each are given; the first match is replaced and
\* returned, null (the empty sequence) when nothing matched.
FindOneAndUpdate(op, instanceId, userId, matched, updated) ==
  /\ userActions < MaxUserActions
  /\ userActions' = userActions + 1
  /\ IF matched = {}
     THEN /\ instances' = instances
          /\ ret' = [op |-> op, instanceId |-> instanceId, userId |-> userId,
                     result |-> <<>>]
          /\ closedKeys' = closedKeys
     ELSE LET old == FirstDoc(matched)
          IN  /\ instances' = (instances \ {old}) \cup {updated[old]}
              /\ ret' = [op |-> op, instanceId |-> instanceId, userId |-> userId,
                         result |-> <<updated[old]>>]
              /\ closedKeys' = IF updated[old].status \in {"completed", "skipped"}
                               THEN closedKeys \cup {old.instanceKey}
                               ELSE closedKeys
  /\ UNCHANGED <<now, rules, contacts, procs>>

markDone(instanceId, userId) ==
  FindOneAndUpdate("markDone", instanceId, userId,
                   {i \in instances : MarkDoneFilter(i, instanceId, userId)},
                   [i \in {j \in instances : MarkDoneFilter(j, instanceId, userId)} |->
                      MarkDoneUpdate(i, now)])

snooze(instanceId, userId, days) ==
  FindOneAndUpdate("snooze", instanceId, userId,
                   {i \in instances : SnoozeFilter(i, instanceId, userId)},
                   [i \in {j \in instances : SnoozeFilter(j, instanceId, userId)} |->
                      SnoozeUpdate(i, addDays(now, days), now)])

unsnooze(instanceId, userId) ==
  FindOneAndUpdate("unsnooze", instanceId, userId,
                   {i \in instances : UnsnoozeFilter(i, instanceId, userId)},
                   [i \in {j \in instances : UnsnoozeFilter(j, instanceId, userId)} |->
                      UnsnoozeUpdate(i, now)])

skip(instanceId, userId) ==
  FindOneAndUpdate("skip", instanceId, userId,
                   {i \in instances : SkipFilter(i, instanceId, userId)},
                   [i \in {j \in instances : SkipFilter(j, instanceId, userId)} |->
                      SkipUpdate(i, now)])

\* ------------------------------------------------------------------------
\* The clock
\* ------------------------------------------------------------------------
AdvanceClock(d) ==
  /\ now + d <= StartTick + MaxElapsed
  /\ now' = now + d
  /\ UNCHANGED <<rules, contacts, instances, procs, ret, userActions, closedKeys>>

\* ------------------------------------------------------------------------
\* Specification: the operations one after another
\* ------------------------------------------------------------------------
InstanceIds == {i.id : i \in instances} \cup {NoSuchId}
SnoozeDays == {DEFAULT_SNOOZE_DAYS}
RuleOwnerPlans(ruleId) ==
  IF ruleId \in DOMAIN rules THEN {UserPlan[rules[ruleId].userId]} ELSE PLAN_TIERS
ContactOwnerPlans(contactId) ==
  IF contactId \in DOMAIN contacts THEN {UserPlan[contacts[contactId].userId]}
  ELSE {"free"}

Next ==
  \/ \E u \in Users : materializeUser(u, UserPlan[u])
  \/ \E r \in DOMAIN rules : \E plan \in RuleOwnerPlans(r) : materializeRule(r, plan)
  \/ \E c \in ContactIds : \E plan \in ContactOwnerPlans(c) : rematerializeForContact(c, plan)
  \/ \E id \in InstanceIds, u \in Users : markDone(id, u)
  \/ \E id \in InstanceIds, u \in Users, days \in SnoozeDays : snooze(id, u, days)
  \/ \E id \in InstanceIds, u \in Users : unsnooze(id, u)
  \/ \E id \in InstanceIds, u \in Users : skip(id, u)
  \/ \E d \in {1, TicksPerDay} : AdvanceClock(d)

Spec == Init /\ [][Next]_vars

\* ------------------------------------------------------------------------
\* Concurrent materialization: calls of two callers, interleaved at the
\* steps of the server.  A call reads and stages, then bulkWrite runs its
\* upserts one by one; an upsert first looks for a document matching its
\* filter and, finding none, inserts one, and other writers may act between
\* the two.  The unique index rejects the insert of a key already stored;
\* the server then either retries the upsert as an update or reports a
\* duplicate key write error, with which bulkWrite (unordered) carries on
\* and throws at its end.
\* ------------------------------------------------------------------------
\* A call from its entry to its bulkWrite, given what it staged.
InFlight(kind, arg, plan, st) ==
  [pc |-> "match", op |-> kind, arg |-> arg, plan |-> plan,
   windowStart |-> WindowStart(now),
   staged |-> [userId |-> st.userId, rulesProcessed |-> st.rulesProcessed,
               errors |-> st.errors],
   bulkOps |-> st.bulkOps,
   upserted |-> 0, modified |-> 0, writeErrors |-> 0]

CallBegin(p, kind, arg, plan) ==
  /\ procs[p] = Idle
  /\ procs' = [procs EXCEPT ![p] =
                 InFlight(kind, arg, plan, Stage(kind, arg, plan, rules, contacts, now))]
  /\ UNCHANGED <<now, rules, contacts, instances, ret, userActions, closedKeys>>

\* The upsert at the head of bulkOps looks for its document: it updates the
\* one found, or goes on to insert.
UpsertMatch(p) ==
  /\ procs[p].pc = "match"
  /\ procs[p].bulkOps # <<>>
  /\ LET op == Head(procs[p].bulkOps)
         hit == FilterMatches(instances, op)
     IN  IF hit # {}
         THEN LET old == FirstDoc(hit)
                  new == UpdatedDoc(old, op)
              IN  /\ instances' = (instances \ {old}) \cup {new}
                  /\ procs' = [procs EXCEPT
                                 ![p].bulkOps = Tail(@),
                                 ![p].modified = @ + (IF new = old THEN 0 ELSE 1)]
         ELSE /\ instances' = instances
              /\ procs' = [procs EXCEPT ![p].pc = "insert"]
  /\ UNCHANGED <<now, rules, contacts, ret, userActions, closedKeys>>

\* The insert of an upsert that matched nothing.
UpsertInsert(p) ==
  /\ procs[p].pc = "insert"
  /\ LET op == Head(procs[p].bulkOps)
     IN  /\ UniqueIndexAllows(instances, op.filter.instanceKey)
         /\ instances' = instances
                           \cup {InsertedDoc(op, FreshId(instances, op.filter.instanceKey))}
         /\ procs' = [procs EXCEPT ![p].pc = "match",
                                   ![p].bulkOps = Tail(@),
                                   ![p].upserted = @ + 1]
  /\ UNCHANGED <<now, rules, contacts, ret, userActions, closedKeys>>

\* The insert meets a key stored meanwhile; the upsert is retried.
DuplicateKeyRetry(p) ==
  /\ procs[p].pc = "insert"
  /\ ~UniqueIndexAllows(instances, Head(procs[p].bulkOps).filter.instanceKey)
  /\ procs' = [procs EXCEPT ![p].pc = "match"]
  /\ UNCHANGED <<now, rules, contacts, instances, ret, userActions, closedKeys>>

\* The insert meets a key stored meanwhile; a write error is recorded.
DuplicateKeyError(p) ==
  /\ procs[p].pc = "insert"
  /\ ~UniqueIndexAllows(instances, Head(procs[p].bulkOps).filter.instanceKey)
  /\ procs' = [procs EXCEPT ![p].pc = "match",
                            ![p].bulkOps = Tail(@),
                            ![p].writeErrors = @ + 1]
  /\ UNCHANGED <<now, rules, contacts, instances, ret, userActions, closedKeys>>

\* bulkWrite is through without a write error: the call returns its result.
CallReturn(p) ==
  /\ procs[p].pc = "match"
  /\ procs[p].bulkOps = <<>>
  /\ procs[p].writeErrors = 0
  /\ ret' = [op |-> procs[p].op, arg |-> procs[p].arg, plan |-> procs[p].plan,
             windowStart |-> procs[p].windowStart,
             result |-> MaterializationResult(procs[p].staged, procs[p].upserted,
                                              procs[p].modified)]
  /\ procs' = [procs EXCEPT ![p] = Idle]
  /\ UNCHANGED <<now, rules, contacts, instances, userActions, closedKeys>>

\* bulkWrite throws its write errors, which no entry point catches.
CallThrow(p) ==
  /\ procs[p].pc = "match"
  /\ procs[p].bulkOps = <<>>
  /\ procs[p].writeErrors > 0
  /\ ret' = [op |-> procs[p].op, arg |-> procs[p].arg, plan |-> procs[p].plan,
             windowStart |-> procs[p].windowStart,
             thrown |-> "BulkWriteError"]
  /\ procs' = [procs EXCEPT ![p] = Idle]
  /\ UNCHANGED <<now, rules, contacts, instances, userActions, closedKeys>>

NextConc ==
  \/ \E p \in Procs, u \in Users : CallBegin(p, "materializeUser", u, UserPlan[u])
  \/ \E p \in Procs, r \in DOMAIN rules : \E plan \in RuleOwnerPlans(r) :
       CallBegin(p, "materializeRule", r, plan)
  \/ \E p \in Procs, c \in ContactIds : \E plan \in ContactOwnerPlans(c) :
       CallBegin(p, "rematerializeForContact", c, plan)
  \/ \E p \in Procs : UpsertMatch(p)
  \/ \E p \in Procs : UpsertInsert(p)
  \/ \E p \in Procs : DuplicateKeyRetry(p)
  \/ \E p \in Procs : DuplicateKeyError(p)
  \/ \E p \in Procs : CallReturn(p)
  \/ \E p \in Procs : CallThrow(p)

SpecConc == Init /\ [][NextConc]_vars

\* ------------------------------------------------------------------------
\* Today queue (TodayQueueService)
\* ------------------------------------------------------------------------
\* A match criteria that leaves out the status.
MatchCriteriaAnyStatus(i, userId, includeOverdue, t) ==
  /\ i.userId = userId
  /\ IF includeOverdue
     THEN i.dueDate <= endOfDay(t)
     ELSE i.dueDate >= startOfDay(t) /\ i.dueDate <= endOfDay(t)
  /\ (i.snoozedUntil = Unset \/ i.snoozedUntil <= t)

\* matchCriteria: the caller's pending instances due by the end of today
\* (from the start of today when includeOverdue is false), not snoozed
\* beyond now.
MatchCriteria(i, userId, includeOverdue, t) ==
  /\ i.userId = userId
  /\ i.status = "pending"
  /\ IF includeOverdue
     THEN i.dueDate <= endOfDay(t)
     ELSE i.dueDate >= startOfDay(t) /\ i.dueDate <= endOfDay(t)
  /\ (i.snoozedUntil = Unset \/ i.snoozedUntil <= t)

\* limit ?? QUEUE_CAPS[plan]
AppliedCap(limit, plan) == IF limit = Unset THEN QUEUE_CAPS[plan] ELSE limit

\* $max: [0, $floor((todayStart - dueDate) / one day)]
DaysOverdue(dueDate, todayStart) == Max(0, MathFloor(todayStart - dueDate, TicksPerDay))

\* The $switch over REMINDER_TYPE_SCORES, custom by default.
TypeScore(type) ==
  IF type \in DOMAIN REMINDER_TYPE_SCORES THEN REMINDER_TYPE_SCORES[type]
  ELSE REMINDER_TYPE_SCORES.custom

\* The $switch over PRIORITY_MULTIPLIERS, medium by default.
PriorityMultiplier(priority) ==
  IF priority \in DOMAIN PRIORITY_MULTIPLIERS THEN PRIORITY_MULTIPLIERS[priority]
  ELSE PRIORITY_MULTIPLIERS.medium

\* A score that leaves out the priority.
ScoreIgnoringPriority(type, priority, daysOverdue) ==
  TypeScore(type) + daysOverdue * OVERDUE_PENALTY_PER_DAY

Score(type, priority, daysOverdue) ==
  TypeScore(type) * PriorityMultiplier(priority) + daysOverdue * OVERDUE_PENALTY_PER_DAY

\* A document with the fields score and daysOverdue added.
WithScore(i, score, daysOverdue) ==
  [f \in DOMAIN i \cup {"score", "daysOverdue"} |->
     IF f = "score" THEN score
     ELSE IF f = "daysOverdue" THEN daysOverdue
     ELSE i[f]]

\* The two $addFields stages.
AddFields(i, todayStart) ==
  WithScore(i, Score(i.type, i.priority, DaysOverdue(i.dueDate, todayStart)),
            DaysOverdue(i.dueDate, todayStart))

\* The order in which the collection holds its documents, and the two ways
\* a sort may leave documents that its keys do not tell apart: as stored,
\* or reversed.
RuleIndex(ruleId) == CHOOSE k \in 1..Len(RuleIds) : RuleIds[k] = ruleId
StoredBefore(a, b) ==
  \/ RuleIndex(a.ruleId) < RuleIndex(b.ruleId)
  \/ a.ruleId = b.ruleId /\ a.dueDate < b.dueDate
  \/ a.ruleId = b.ruleId /\ a.dueDate = b.dueDate /\ a.id[2] < b.id[2]
TieOrders == {"stored", "reversed"}
TieBefore(a, b, tie) == IF tie = "stored" THEN StoredBefore(a, b) ELSE StoredBefore(b, a)

\* A sort that puts the later due date first among equal scores.
ScoredBeforeLatestFirst(a, b, tie) ==
  \/ a.score > b.score
  \/ a.score = b.score /\ a.dueDate > b.dueDate
  \/ a.score = b.score /\ a.dueDate = b.dueDate /\ TieBefore(a, b, tie)

\* $sort: {score: -1, dueDate: 1}
ScoredBefore(a, b, tie) ==
  \/ a.score > b.score
  \/ a.score = b.score /\ a.dueDate < b.dueDate
  \/ a.score = b.score /\ a.dueDate = b.dueDate /\ TieBefore(a, b, tie)

\* The strings of the priorities in ascending order.
PriorityStringOrder == [high |-> 1, low |-> 2, medium |-> 3]

\* sort({dueDate: 1, priority: -1})
UnscoredBefore(a, b, tie) ==
  \/ a.dueDate < b.dueDate
  \/ /\ a.dueDate = b.dueDate
     /\ PriorityStringOrder[a.priority] > PriorityStringOrder[b.priority]
  \/ a.dueDate = b.dueDate /\ a.priority = b.priority /\ TieBefore(a, b, tie)

RECURSIVE SetToSeq(_)
SetToSeq(S) ==
  IF S = {} THEN <<>>
  ELSE <<CHOOSE x \in S : TRUE>> \o SetToSeq(S \ {CHOOSE x \in S : TRUE})

\* The first n elements of a sequence ($limit, limit(), slice(0, n)).
Limit(seq, n) == SubSeq(seq, 1, Min(n, Len(seq)))

\* A result whose total counts the items it returns.
ScoredResultCountingItems(sorted, appliedCap) ==
  [items |-> Limit(sorted, appliedCap),
   total |-> Len(Limit(sorted, appliedCap)),
   capped |-> Len(Limit(sorted, appliedCap)) > appliedCap,
   appliedCap |-> appliedCap]

\* $facet {items: $limit appliedCap, totalCount: $count} and the result
\* built from it.
ScoredResult(sorted, appliedCap) ==
  [items |-> Limit(sorted, appliedCap),
   total |-> Len(sorted),
   capped |-> Len(sorted) > appliedCap,
   appliedCap |-> appliedCap]

ScoredQueue(store, userId, appliedCap, includeOverdue, t, tie) ==
  ScoredResult(SortSeq(SetToSeq({AddFields(i, startOfDay(t)) :
                                   i \in {j \in store :
                                            MatchCriteria(j, userId, includeOverdue, t)}}),
                       LAMBDA a, b : ScoredBefore(a, b, tie)),
               appliedCap)

\* computeDaysOverdue(dueDate, today)
computeDaysOverdue(dueDate, today) == Max(0, MathFloor(today - dueDate, TicksPerDay))

\* The skipScoring branch, given the appliedCap + 1 documents found at most.
UnscoredResult(found, appliedCap, todayStart) ==
  [items |-> [k \in 1..Min(appliedCap, Len(found)) |->
                WithScore(found[k], 0, computeDaysOverdue(found[k].dueDate, todayStart))],
   total |-> IF Len(found) > appliedCap THEN Len(found) ELSE Min(appliedCap, Len(found)),
   capped |-> Len(found) > appliedCap,
   appliedCap |-> appliedCap]

UnscoredQueue(store, userId, appliedCap, includeOverdue, t, tie) ==
  UnscoredResult(Limit(SortSeq(SetToSeq({j \in store :
                                           MatchCriteria(j, userId, includeOverdue, t)}),
                               LAMBDA a, b : UnscoredBefore(a, b, tie)),
                       appliedCap + 1),
                 appliedCap, startOfDay(t))

\* getTodayQueue({userId, plan, limit, includeOverdue, skipScoring}); tie is
\* the order the sort leaves among documents its keys do not tell apart.
getTodayQueue(userId, plan, limit, includeOverdue, skipScoring, tie) ==
  /\ ret' = [op |-> "getTodayQueue", userId |-> userId, plan |-> plan,
             includeOverdue |-> includeOverdue, skipScoring |-> skipScoring,
             result |-> IF skipScoring
                        THEN UnscoredQueue(instances, userId, AppliedCap(limit, plan),
                                           includeOverdue, now, tie)
                        ELSE ScoredQueue(instances, userId, AppliedCap(limit, plan),
                                         includeOverdue, now, tie)]
  /\ UNCHANGED <<now, rules, contacts, instances, procs, userActions, closedKeys>>

\* ------------------------------------------------------------------------
\* Specification of the queue: a store that sweeps of some days ago have
\* filled, on which the users act and ask for their queue.
\* ------------------------------------------------------------------------
\* Days since the sweep that materialized the instances of u1 and of u2.
FreeSweepAge == 12
ProSweepAge == 27

\* r1: u1 follows up with c1 every day; r2: and every 3 days, at low
\* priority; r3: the birthday of c1, today; r4: u2 follows up with c2 every
\* day; r5: the anniversary of c2, a week ago, notified a week before too.
QueueRules ==
  [r \in {"r1", "r2", "r3", "r4", "r5"} |->
     IF r = "r1"
     THEN Rule("r1", "u1", "c1", "follow_up", <<>>, 1, "creation", "high", <<0>>,
               addDays(StartTick, 0 - FreeSweepAge - 1) + 1)
     ELSE IF r = "r2"
     THEN Rule("r2", "u1", "c1", "follow_up", <<>>, 3, "creation", "low", <<0>>,
               addDays(StartTick, 0 - FreeSweepAge - 3) + 1)
     ELSE IF r = "r3"
     THEN Rule("r3", "u1", "c1", "birthday", <<2, 10>>, 0, "last_contact", "medium",
               <<0>>, addDays(StartTick, 0 - FreeSweepAge - 1))
     ELSE IF r = "r4"
     THEN Rule("r4", "u2", "c2", "follow_up", <<>>, 1, "creation", "medium", <<0>>,
               addDays(StartTick, 0 - ProSweepAge - 1))
     ELSE Rule("r5", "u2", "c2", "anniversary", <<2, 3>>, 0, "last_contact", "high",
               <<0, 7>>, addDays(StartTick, 0 - ProSweepAge - 1))]

\* What bulkWrite makes of operations with keys that are all new: one
\* inserted document for each.
AllInserted(bulkOps) ==
  {InsertedDoc(bulkOps[k], FreshId({}, bulkOps[k].filter.instanceKey)) : k \in DOMAIN bulkOps}

\* What the sweeps wrote: materializeUser for u1 and for u2, each at its
\* time; u2 was on the free plan then and has moved to pro since.
QueueStore ==
  AllInserted(StageUser("u1", "free", QueueRules, InitContacts,
                        addDays(StartTick, 0 - FreeSweepAge)).bulkOps)
  \cup AllInserted(StageUser("u2", "free", QueueRules, InitContacts,
                             addDays(StartTick, 0 - ProSweepAge)).bulkOps)

InitQ ==
  /\ now = StartTick
  /\ rules = QueueRules
  /\ contacts = InitContacts
  /\ instances = QueueStore
  /\ procs = [p \in Procs |-> Idle]
  /\ ret = NoReturn
  /\ userActions = 0
  /\ closedKeys = {}

\* The instances a user sees at the head of the lists: those due today.
DueTodayIds == {i.id : i \in {j \in instances : DayOf(j.dueDate) = DayOf(now)}}

NextQ ==
  \/ \E u \in Users, includeOverdue \in BOOLEAN, skipScoring \in BOOLEAN,
        tie \in TieOrders :
       getTodayQueue(u, UserPlan[u], Unset, includeOverdue, skipScoring, tie)
  \/ \E id \in DueTodayIds, u \in Users : markDone(id, u)
  \/ \E id \in DueTodayIds, u \in Users, days \in SnoozeDays : snooze(id, u, days)
  \/ \E id \in DueTodayIds, u \in Users : unsnooze(id, u)
  \/ \E id \in DueTodayIds, u \in Users : skip(id, u)
  \/ \E d \in {1, TicksPerDay} : AdvanceClock(d)

SpecQ == InitQ /\ [][NextQ]_vars

\* ------------------------------------------------------------------------
\* Properties of materialization
\* ------------------------------------------------------------------------
MaterializationOps == {"materializeUser", "materializeRule", "rematerializeForContact"}

\* A step of Spec that is a materialization call / an instance action.
MaterializationStep ==
  ret'.op \in MaterializationOps /\ now' = now /\ userActions' = userActions
InstanceActionStep == userActions' = userActions + 1

\* Document j is document i but for the bookkeeping timestamp.
SameButUpdatedAt(i, j) == \A f \in DOMAIN i \ {"updatedAt"} : j[f] = i[f]

\* Every document of the store before the step is in the store after it,
\* changed in nothing but updatedAt.
ExistingInstancesKept ==
  \A i \in instances : \E j \in instances' : j.id = i.id /\ SameButUpdatedAt(i, j)

\* C2: a materializeRule call that directly follows a materializeRule call
\* for the same rule, with the rule, the anchor data and the window (its
\* start and its plan) unchanged, reports instancesCreated = 0, leaves the
\* set of instances as it was, and alters no status (nor any other field
\* but updatedAt).
MaterializeRuleIdempotent ==
  [][(/\ ret.op = "materializeRule"
      /\ MaterializationStep
      /\ ret'.op = "materializeRule"
      /\ ret'.arg = ret.arg
      /\ ret'.plan = ret.plan
      /\ ret'.windowStart = ret.windowStart
      /\ rules' = rules
      /\ contacts' = contacts)
     => (/\ ret'.result.instancesCreated = 0
         /\ {j.id : j \in instances'} = {i.id : i \in instances}
         /\ ExistingInstancesKept)]_vars

\* The birthday instance that materializeRule("r2") created (it carries no
\* contact name) is found again by a later materializeRule("r2") call.
MaterializeRuleRepeated ==
  /\ ret.op = "materializeRule"
  /\ ret.arg = "r2"
  /\ ret.result.instancesCreated = 0
  /\ ret.result.instancesUpdated = 1
  /\ \E i \in instances : i.ruleId = "r2" /\ i.contactName = Undefined

\* C3: a materialization call leaves every instance that existed before it
\* with its status, snoozedUntil, completedAt, skippedAt, dueDate,
\* instanceKey and display fields; only updatedAt may differ.
MaterializationNonDestructive ==
  [][MaterializationStep => ExistingInstancesKept]_vars

\* A materialization call has touched an instance completed earlier.
CompletedInstanceRematerialized ==
  /\ ret.op \in MaterializationOps
  /\ ret.result.instancesUpdated > 0
  /\ \E i \in instances :
       /\ i.userId = ret.result.userId
       /\ i.status = "completed"
       /\ i.updatedAt > i.completedAt

\* C1: the store never holds two instances with the same instance key,
\* that is, with the same rule id and the same day of the due date, however
\* the materialization calls of the callers interleave.
OneInstancePerKey ==
  \A i, j \in instances :
    (i.instanceKey = j.instanceKey
       \/ (i.ruleId = j.ruleId /\ DayOf(i.dueDate) = DayOf(j.dueDate)))
      => i = j

\* A call in flight lost the race for a key to another caller, whose
\* instance is the one stored.
LostInsertRace ==
  \E p \in Procs :
    /\ procs[p] # Idle
    /\ procs[p].writeErrors > 0
    /\ instances # {}

\* ------------------------------------------------------------------------
\* Properties of the instance state machine
\* ------------------------------------------------------------------------
\* The status an operation moves an instance of a given status to ("none":
\* the operation is not legal from that status).
Transition ==
  [markDone |-> [pending |-> "completed", snoozed |-> "completed",
                 completed |-> "none", skipped |-> "none"],
   snooze   |-> [pending |-> "snoozed", snoozed |-> "none",
                 completed |-> "none", skipped |-> "none"],
   unsnooze |-> [pending |-> "none", snoozed |-> "pending",
                 completed |-> "none", skipped |-> "none"],
   skip     |-> [pending |-> "skipped", snoozed |-> "skipped",
                 completed |-> "none", skipped |-> "none"]]

\* C4: an instance action succeeds exactly on the transitions of the table
\* (on an instance of the caller), returning the instance in its new
\* status; every other action returns null and leaves the store unchanged;
\* and no step takes a completed or skipped instance out of its status.
StateMachineTransitions ==
  [][/\ InstanceActionStep =>
          LET legal == {i \in instances :
                          /\ i.id = ret'.instanceId
                          /\ i.userId = ret'.userId
                          /\ Transition[ret'.op][i.status] # "none"}
          IN  IF legal = {}
              THEN ret'.result = <<>> /\ instances' = instances
              ELSE \E i \in legal :
                     /\ ret'.result # <<>>
                     /\ ret'.result[1].id = i.id
                     /\ ret'.result[1].status = Transition[ret'.op][i.status]
                     /\ instances' = (instances \ {i}) \cup {ret'.result[1]}
     /\ \A i \in instances :
          i.status \in {"completed", "skipped"}
            => \E j \in instances' : j.id = i.id /\ j.status = i.status]_vars

\* snooze on the caller's own snoozed instance was answered with null.
SnoozeOfSnoozedRejected ==
  /\ ret.op = "snooze"
  /\ ret.result = <<>>
  /\ \E i \in instances :
       i.id = ret.instanceId /\ i.userId = ret.userId /\ i.status = "snoozed"

\* C5: of two markDone calls, or a markDone and a skip call, that reach the
\* same instance one after the other, the first to arrive returns the
\* updated instance and the other returns null and writes nothing: the
\* status and timestamps stay those the winner wrote.
DuplicateActionLoses ==
  [][(/\ ret.op \in {"markDone", "skip"}
      /\ ret.result # <<>>
      /\ InstanceActionStep
      /\ ret'.op \in {"markDone", "skip"}
      /\ "markDone" \in {ret.op, ret'.op}
      /\ ret'.instanceId = ret.instanceId)
     => (/\ ret'.result = <<>>
         /\ instances' = instances
         /\ ret.result[1] \in instances')]_vars

\* A skip arrived second at an instance that a markDone had completed, and
\* missed; the instance is as markDone wrote it.
SkipLostToMarkDone ==
  /\ ret.op = "skip"
  /\ ret.result = <<>>
  /\ userActions = 2
  /\ \E i \in instances :
       /\ i.id = ret.instanceId
       /\ i.userId = ret.userId
       /\ i.status = "completed"
       /\ i.completedAt = i.updatedAt
       /\ i.skippedAt = Unset

\* C6: an instance carries snoozedUntil if and only if its status is
\* snoozed.
SnoozedUntilIffSnoozed ==
  \A i \in instances : (i.snoozedUntil # Unset) <=> (i.status = "snoozed")

\* unsnooze has returned a snoozed instance to pending and cleared the field.
UnsnoozeClearedSnoozedUntil ==
  /\ ret.op = "unsnooze"
  /\ ret.result # <<>>
  /\ ret.result[1] \in instances
  /\ ret.result[1].status = "pending"
  /\ ret.result[1].snoozedUntil = Unset

\* ------------------------------------------------------------------------
\* Properties of the today queue
\* ------------------------------------------------------------------------
\* A step that is a getTodayQueue call in its default, scored mode.
ScoredQueueStep == ret' # ret /\ ret'.op = "getTodayQueue" /\ ~ret'.skipScoring

\* The selection: the owner's pending instances due today or before, not
\* under a snooze that is still running; due today when overdue ones are
\* not asked for.
Selected(i, userId, includeOverdue) ==
  /\ i.userId = userId
  /\ i.status = "pending"
  /\ DayOf(i.dueDate) <= DayOf(now)
  /\ (i.snoozedUntil = Unset \/ i.snoozedUntil <= now)
  /\ (~includeOverdue => DayOf(i.dueDate) = DayOf(now))

Selection(userId, includeOverdue) ==
  {i \in instances : Selected(i, userId, includeOverdue)}

\* The stored instance a returned item stands for.
InstanceOf(item) == [f \in DOMAIN item \ {"score", "daysOverdue"} |-> item[f]]

\* The score the formula gives an instance (or item) today.
FormulaScore(i) ==
  [birthday |-> 15, anniversary |-> 12, follow_up |-> 10, custom |-> 8][i.type]
    * [high |-> 3, medium |-> 2, low |-> 1][i.priority]
  + 5 * (IF DayOf(now) > DayOf(i.dueDate) THEN DayOf(now) - DayOf(i.dueDate) ELSE 0)

\* Instance (or item) a ranks strictly before b.
Outranks(a, b) ==
  \/ FormulaScore(a) > FormulaScore(b)
  \/ FormulaScore(a) = FormulaScore(b) /\ a.dueDate < b.dueDate

TierCap(plan) == IF plan = "free" THEN 10 ELSE 25

\* C7: a scored getTodayQueue call returns exactly min(total, N) items, N
\* the cap of the tier (free 10, pro 25) and total the number of instances
\* in the selection, reports that total, and reports capped exactly when
\* total > N.
QueueCapExact ==
  [][ScoredQueueStep =>
       (/\ Len(ret'.result.items)
             = Min(Cardinality(Selection(ret'.userId, ret'.includeOverdue)),
                   TierCap(ret'.plan))
        /\ ret'.result.total = Cardinality(Selection(ret'.userId, ret'.includeOverdue))
        /\ ret'.result.capped
             <=> (Cardinality(Selection(ret'.userId, ret'.includeOverdue))
                    > TierCap(ret'.plan))
        /\ Len(ret'.result.items) <= TierCap(ret'.plan))]_vars

\* The pro user was returned 25 items of more than 25 selected, capped.
ProQueueCapped ==
  /\ ret.op = "getTodayQueue"
  /\ ~ret.skipScoring
  /\ ret.plan = "pro"
  /\ Len(ret.result.items) = 25
  /\ ret.result.total > 25
  /\ ret.result.capped

\* C8: every item a getTodayQueue call returns is an instance of the
\* selection (the owner's, pending, due by the end of today, not snoozed
\* beyond now, due today when includeOverdue is false), and in scored mode
\* total counts every instance of the selection.
QueueSelection ==
  [][(ret' # ret /\ ret'.op = "getTodayQueue") =>
       (/\ \A k \in 1..Len(ret'.result.items) :
             InstanceOf(ret'.result.items[k])
               \in Selection(ret'.userId, ret'.includeOverdue)
        /\ ~ret'.skipScoring =>
             ret'.result.total
               = Cardinality(Selection(ret'.userId, ret'.includeOverdue)))]_vars

\* A queue was returned for today only while the owner has an overdue
\* pending instance and instances due today that are no longer pending.
QueueLeftOutOthers ==
  /\ ret.op = "getTodayQueue"
  /\ ~ret.skipScoring
  /\ ~ret.includeOverdue
  /\ ret.result.total > 0
  /\ \E i \in instances :
       i.userId = ret.userId /\ i.status = "pending" /\ DayOf(i.dueDate) < DayOf(now)
  /\ \E i \in instances :
       i.userId = ret.userId /\ i.status # "pending" /\ DayOf(i.dueDate) = DayOf(now)
  /\ \E i \in instances : i.userId # ret.userId /\ Selected(i, i.userId, FALSE)

\* C9: the items of a scored getTodayQueue call are listed in rank order
\* (score descending, then due date ascending), they are distinct instances
\* of the selection, as many as the cap allows, and no instance of the
\* selection that was left out outranks one that was returned.
QueueRanking ==
  [][ScoredQueueStep =>
       (/\ \A k, l \in 1..Len(ret'.result.items) :
             k < l => /\ ~Outranks(ret'.result.items[l], ret'.result.items[k])
                      /\ ret'.result.items[k].id # ret'.result.items[l].id
        /\ \A i \in Selection(ret'.userId, ret'.includeOverdue) :
             (\A k \in 1..Len(ret'.result.items) : ret'.result.items[k].id # i.id)
               => /\ Len(ret'.result.items) = TierCap(ret'.plan)
                  /\ \A k \in 1..Len(ret'.result.items) :
                       ~Outranks(i, ret'.result.items[k]))]_vars

\* A capped queue was returned in which two neighbours have the same score
\* and different due dates, and two others different scores.
QueueRankedWithTies ==
  /\ ret.op = "getTodayQueue"
  /\ ~ret.skipScoring
  /\ ret.result.capped
  /\ \E k \in 1..(Len(ret.result.items) - 1) :
       /\ ret.result.items[k].score = ret.result.items[k + 1].score
       /\ ret.result.items[k].dueDate < ret.result.items[k + 1].dueDate
  /\ \E k \in 1..(Len(ret.result.items) - 1) :
       ret.result.items[k].score > ret.result.items[k + 1].score

\* C10: every item of a scored getTodayQueue call carries the score
\* typeBase * priorityMultiplier + 5 * daysOverdue, daysOverdue the whole
\* days from its due date to today, never negative; and of two items of one
\* type equally overdue, the high priority one scores strictly higher than
\* the low priority one.
ScoreFormula ==
  [][ScoredQueueStep =>
       (/\ \A k \in 1..Len(ret'.result.items) :
             /\ ret'.result.items[k].score = FormulaScore(ret'.result.items[k])
             /\ ret'.result.items[k].daysOverdue
                  = (IF DayOf(now) > DayOf(ret'.result.items[k].dueDate)
                     THEN DayOf(now) - DayOf(ret'.result.items[k].dueDate) ELSE 0)
        /\ \A k, l \in 1..Len(ret'.result.items) :
             (/\ ret'.result.items[k].type = ret'.result.items[l].type
              /\ ret'.result.items[k].daysOverdue = ret'.result.items[l].daysOverdue
              /\ ret'.result.items[k].priority = "high"
              /\ ret'.result.items[l].priority = "low")
               => ret'.result.items[k].score > ret'.result.items[l].score)]_vars

\* A queue was returned with a high and a low priority item of one type,
\* both overdue by the same number of days, more than none.
HighAndLowEquallyOverdue ==
  /\ ret.op = "getTodayQueue"
  /\ ~ret.skipScoring
  /\ \E k, l \in 1..Len(ret.result.items) :
       /\ ret.result.items[k].type = ret.result.items[l].type
       /\ ret.result.items[k].daysOverdue = ret.result.items[l].daysOverdue
       /\ ret.result.items[k].daysOverdue > 0
       /\ ret.result.items[k].priority = "high"
       /\ ret.result.items[l].priority = "low"

\* ------------------------------------------------------------------------
\* The recurrence calculator by itself: a rule, its contact and the clock
\* are drawn from sets, and computeDueDates is applied to them, directly and
\* through materializeRule.
\* ------------------------------------------------------------------------
INTERVAL_ANCHORS == {"last_contact", "creation", "custom_date"}

\* new Date(): noon of March 1 of a leap year, February 10 of the year after
\* it, and a day in December, from which the window reaches the next year.
CalcClocks ==
  {Tick(EpochYear, 3, 1, 1), Tick(EpochYear + 1, 2, 10, 0), Tick(EpochYear, 12, 15, 1)}

\* intervalDays: z.number().int().min(1).max(365)
CalcIntervals == {7, 30}

\* notifyDaysBefore: z.array(z.number().int().min(0).max(30)), in any order.
CalcOffsets == {<<0>>, <<0, 7>>, <<30, 0>>}

\* fixedDate: month 1..12, day 1..31; April 31 is a day no year has.
CalcFixedDates == {<<2, 29>>, <<3, 1>>, <<12, 25>>, <<4, 31>>}

\* rule.createdAt: 45 days before the first clock.
CalcCreatedAt == Tick(EpochYear, 1, 16, 1)

\* customAnchorDate: absent, or a date 45 days after the first clock.
CalcCustomAnchors == {Unset, Tick(EpochYear, 4, 15, 1)}

\* contact.lastContactedAt: absent, 30 days before the first clock, or the
\* day of the first clock.
CalcLastContacts == {Unset, Tick(EpochYear, 1, 31, 1), Tick(EpochYear, 3, 1, 0)}

CalcIntervalRule(intervalDays, intervalAnchor, customAnchorDate, notifyDaysBefore) ==
  [Rule("r1", "u1", "c1", "follow_up", <<>>, intervalDays, intervalAnchor, "medium",
        notifyDaysBefore, CalcCreatedAt)
     EXCEPT !.customAnchorDate = customAnchorDate]

CalcFixedRule(fixedDate, notifyDaysBefore) ==
  Rule("r1", "u1", "c1", "birthday", fixedDate, 0, "last_contact", "medium",
       notifyDaysBefore, CalcCreatedAt)

CalcRules ==
  {CalcIntervalRule(n, a, c, o) :
     n \in CalcIntervals, a \in INTERVAL_ANCHORS, c \in CalcCustomAnchors, o \in CalcOffsets}
  \cup {CalcFixedRule(f, o) : f \in CalcFixedDates, o \in CalcOffsets}

InitCalc ==
  /\ now \in CalcClocks
  /\ rules \in {[r \in {"r1"} |-> rule] : rule \in CalcRules}
  /\ contacts \in {[c \in {"c1"} |-> [userId |-> "u1", name |-> "Ann", lastContactedAt |-> t]] :
                     t \in CalcLastContacts}
  /\ instances = {}
  /\ procs = [p \in Procs |-> Idle]
  /\ ret = NoReturn
  /\ userActions = 0
  /\ closedKeys = {}

\* computeDueDates as the materializer calls it for a rule whose contact it
\* found; the list it returns is kept in ret.
CallComputeDueDates(ruleId, plan) ==
  /\ rules[ruleId].contactId \in DOMAIN contacts
  /\ ret' = [op |-> "computeDueDates",
             rule |-> rules[ruleId],
             plan |-> plan,
             windowStart |-> WindowStart(now),
             windowEnd |-> WindowEnd(now, plan),
             contactInfo |-> ContactInfo(rules[ruleId].contactId,
                                         contacts[rules[ruleId].contactId]),
             dueDates |-> computeDueDates(rules[ruleId], WindowStart(now),
                                          WindowEnd(now, plan),
                                          ContactInfo(rules[ruleId].contactId,
                                                      contacts[rules[ruleId].contactId]))]
  /\ UNCHANGED <<now, rules, contacts, instances, procs, userActions, closedKeys>>

NextCalc ==
  \/ \E r \in DOMAIN rules, plan \in PLAN_TIERS : CallComputeDueDates(r, plan)
  \/ \E r \in DOMAIN rules, plan \in PLAN_TIERS : materializeRule(r, plan)

SpecCalc == InitCalc /\ [][NextCalc]_vars

\* ------------------------------------------------------------------------
\* Properties of the recurrence calculator
\* ------------------------------------------------------------------------
Range(seq) == {seq[k] : k \in DOMAIN seq}

\* ret holds the list computeDueDates returned for an interval rule.
IntervalCallReturned ==
  ret.op = "computeDueDates" /\ ret.rule.type = "follow_up" /\ ret.rule.intervalDays >= 1

\* The resolved anchor of the rule of that call, a start of day.
ResolvedAnchor == startOfDay(AnchorDate(ret.rule, ret.contactInfo))

\* The smallest anchor + k * intervalDays (k an integer) that is not before
\* windowStart.
SmallestBoundary(anchor, intervalDays, windowStart) ==
  anchor + ((windowStart - anchor + intervalDays * TicksPerDay - 1)
              \div (intervalDays * TicksPerDay)) * (intervalDays * TicksPerDay)

\* C11: the first due date computeFollowUpDues uses is the smallest
\* anchor + k * intervalDays that is not before windowStart, a boundary that
\* falls on windowStart included: when that boundary lies in the window,
\* each of its notify dates that lies in the window is in the list returned.
FirstDueIsSmallestBoundary ==
  IntervalCallReturned =>
    LET first == SmallestBoundary(ResolvedAnchor, ret.rule.intervalDays, ret.windowStart)
    IN  first <= ret.windowEnd =>
          \A o \in Range(ret.rule.notifyDaysBefore) :
            (addDays(first, 0 - o) >= ret.windowStart /\ addDays(first, 0 - o) <= ret.windowEnd)
              => addDays(first, 0 - o) \in Range(ret.dueDates)

\* ret holds the list computeDueDates returned for a rule dated February 29.
LeapDayCallReturned ==
  ret.op = "computeDueDates" /\ ret.rule.fixedDate = <<2, 29>>

\* C12: for a fixed-date rule of February 29 and a candidate year that is
\* not a leap year, the event date is February 28 of that year: each notify
\* date of February 28 that lies in the window is in the list returned, and
\* no notify date of March 1 is.
LeapDayFallsOnFeb28 ==
  LeapDayCallReturned =>
    \A year \in {getFullYear(ret.windowStart), getFullYear(ret.windowStart) + 1} :
      ~IsLeapYear(year) =>
        \A o \in Range(ret.rule.notifyDaysBefore) :
          /\ (/\ addDays(Tick(year, 2, 28, 0), 0 - o) >= ret.windowStart
              /\ addDays(Tick(year, 2, 28, 0), 0 - o) <= ret.windowEnd)
               => addDays(Tick(year, 2, 28, 0), 0 - o) \in Range(ret.dueDates)
          /\ addDays(Tick(year, 3, 1, 0), 0 - o) \notin Range(ret.dueDates)

\* ------------------------------------------------------------------------
\* Properties of the materialization window
\* ------------------------------------------------------------------------
\* The instances a step inserted.
InsertedBy(before, after) == {i \in after : \A j \in before : j.id # i.id}

\* The due date of instance i is a notify date of its rule: an event date of
\* the rule (the fixed date in the year of the window start or the next, or
\* a whole number of intervals from the anchor) less one of its offsets.
IsNotifyDateOf(i, rule, contact, windowStart) ==
  \E o \in Range(rule.notifyDaysBefore) :
    IF rule.fixedDate # <<>>
    THEN /\ TimeOfDay(i.dueDate) = 0
         /\ \E year \in {getFullYear(windowStart), getFullYear(windowStart) + 1} :
              DayOf(i.dueDate) + o = MakeDay(year, rule.fixedDate[1], rule.fixedDate[2])
    ELSE (addDays(i.dueDate, o)
            - startOfDay(AnchorDate(rule, ContactInfo(rule.contactId, contact))))
           % (rule.intervalDays * TicksPerDay) = 0

\* C13: every instance a materialization call inserts is due no earlier
\* than windowStart (the start of today) and no later than windowStart plus
\* 30 days on the free tier, 90 on the pro tier, and its due date is a
\* notify date of its rule: a notify date before the window is left out,
\* not moved to windowStart.
InsertedWithinWindow ==
  [][MaterializationStep =>
       \A i \in InsertedBy(instances, instances') :
         /\ i.dueDate >= startOfDay(now)
         /\ i.dueDate <= addDays(startOfDay(now), IF ret'.plan = "free" THEN 30 ELSE 90)
         /\ IsNotifyDateOf(i, rules[i.ruleId], contacts[i.contactId], startOfDay(now))]_vars

\* A pro call inserted instances, one of them due more than 30 days ahead,
\* for a rule with a notify date that fell before the window; nothing is due
\* on windowStart.
NotifyDateBeforeWindowDiscarded ==
  /\ ret.op = "materializeRule"
  /\ ret.plan = "pro"
  /\ ret.result.instancesCreated > 0
  /\ \E i \in instances : i.dueDate > addDays(ret.windowStart, 30)
  /\ \E i \in instances : \E o \in Range(rules[i.ruleId].notifyDaysBefore) :
       addDays(i.dueDate, 0 - o) < ret.windowStart
  /\ \A i \in instances : i.dueDate > ret.windowStart

\* C14: the list computeDueDates returns is in ascending order and holds no
\* date twice, whatever the notify offsets.
DueDatesAscendingDistinct ==
  ret.op = "computeDueDates" =>
    \A k \in 1..(Len(ret.dueDates) - 1) : ret.dueDates[k] < ret.dueDates[k + 1]

\* ------------------------------------------------------------------------
\* Properties of the batch of materializeUser
\* ------------------------------------------------------------------------
\* The contact of a rule is not among the contacts of the owner.
ContactMissing(rule, owner) ==
  \/ rule.contactId \notin DOMAIN contacts
  \/ contacts[rule.contactId].userId # owner

ActiveRulesOf(owner) == {r \in DOMAIN rules : rules[r].userId = owner /\ rules[r].isActive}

\* C15: when the contact of an active rule of the owner is missing,
\* materializeUser returns a result (it does not throw) in which that rule
\* has exactly one error entry, inserts no instance for that rule, and has,
\* for every other active rule of the owner, an instance stored for each of
\* its due dates in the window and no error entry.
BatchIsolation ==
  [][(/\ MaterializationStep
      /\ ret'.op = "materializeUser"
      /\ \E r \in ActiveRulesOf(ret'.arg) : ContactMissing(rules[r], ret'.arg))
       => (/\ "result" \in DOMAIN ret'
           /\ \A r \in ActiveRulesOf(ret'.arg) :
                IF ContactMissing(rules[r], ret'.arg)
                THEN /\ Cardinality({k \in DOMAIN ret'.result.errors :
                                       ret'.result.errors[k].ruleId = r}) = 1
                     /\ \A i \in InsertedBy(instances, instances') : i.ruleId # r
                ELSE /\ \A k \in DOMAIN ret'.result.errors :
                          ret'.result.errors[k].ruleId # r
                     /\ \A d \in Range(computeDueDates(
                                         rules[r], startOfDay(now),
                                         addDays(startOfDay(now),
                                                 MATERIALIZATION_WINDOW[ret'.plan]),
                                         ContactInfo(rules[r].contactId,
                                                     contacts[rules[r].contactId]))) :
                          \E i \in instances' :
                            /\ i.instanceKey = generateInstanceKey(r, d)
                            /\ i.ruleId = r)]_vars

\* materializeUser returned one error, for a rule without contact, and
\* created instances for another rule of the owner.
ErrorRecordedOthersCreated ==
  /\ ret.op = "materializeUser"
  /\ "result" \in DOMAIN ret
  /\ ret.result.rulesProcessed = 2
  /\ Len(ret.result.errors) = 1
  /\ ret.result.errors[1].error = "Contact not found"
  /\ ret.result.instancesCreated > 0
  /\ \E i \in instances : i.ruleId # ret.result.errors[1].ruleId /\ i.userId = ret.arg
  /\ \A i \in instances : i.ruleId # ret.result.errors[1].ruleId

\* ------------------------------------------------------------------------
\* Retention: pruneStaleInstances and the TTL index on completedAt
\* ------------------------------------------------------------------------
\* A prune filter whose 30 day clause does not look at the status.
PruneFilterAnyStatus(i, userId, t) ==
  /\ i.userId = userId
  /\ \/ i.dueDate < addDays(t, 0 - 30)
     \/ i.dueDate < addDays(t, 0 - 90)

\* deleteMany({userId, $or: [{dueDate: {$lt: thirtyDaysAgo}, status: {$in:
\* ['completed', 'skipped']}}, {dueDate: {$lt: ninetyDaysAgo}}]})
PruneFilter(i, userId, t) ==
  /\ i.userId = userId
  /\ \/ (i.dueDate < addDays(t, 0 - 30) /\ i.status \in {"completed", "skipped"})
     \/ i.dueDate < addDays(t, 0 - 90)

pruneStaleInstances(userId) ==
  /\ instances' = {i \in instances : ~PruneFilter(i, userId, now)}
  /\ ret' = [op |-> "pruneStaleInstances", userId |-> userId,
             result |-> Cardinality({i \in instances : PruneFilter(i, userId, now)})]
  /\ UNCHANGED <<now, rules, contacts, procs, userActions, closedKeys>>

\* The TTL index {completedAt: 1}, expireAfterSeconds 30 days, partial on
\* status 'completed': the documents the TTL monitor may delete at time t.
TtlExpired(i, t) ==
  /\ i.status = "completed"
  /\ i.completedAt # Unset
  /\ addDays(i.completedAt, 30) <= t

\* A pass of the TTL monitor deletes an expired document.
TtlMonitorDeletes(id) ==
  /\ \E i \in instances : i.id = id /\ TtlExpired(i, now)
  /\ instances' = {i \in instances : i.id # id}
  /\ ret' = [op |-> "ttlMonitor", instanceId |-> id]
  /\ UNCHANGED <<now, rules, contacts, procs, userActions, closedKeys>>

\* How many days the clock may advance in a behaviour of SpecRet.
MaxDaysElapsed == 100

\* The clock moves on by whole days.
AdvanceDays(n) ==
  /\ addDays(now, n) <= addDays(StartTick, MaxDaysElapsed)
  /\ now' = addDays(now, n)
  /\ UNCHANGED <<rules, contacts, instances, procs, ret, userActions, closedKeys>>

\* r1: u1 (free) follows up with c1 every 30 days from the creation of the
\* rule, 25 days before the start; r2: the birthday of c2, of u2 (pro), 60
\* days after the start.
RetentionRules ==
  [r \in {"r1", "r2"} |->
     IF r = "r1"
     THEN Rule("r1", "u1", "c1", "follow_up", <<>>, 30, "creation", "medium", <<0>>,
               addDays(StartTick, 0 - 25))
     ELSE Rule("r2", "u2", "c2", "birthday", <<4, 10>>, 0, "last_contact", "high", <<0>>,
               addDays(StartTick, 0 - 25))]

InitRet ==
  /\ now = StartTick
  /\ rules = RetentionRules
  /\ contacts = InitContacts
  /\ instances = {}
  /\ procs = [p \in Procs |-> Idle]
  /\ ret = NoReturn
  /\ userActions = 0
  /\ closedKeys = {}

NextRet ==
  \/ \E u \in Users : materializeUser(u, UserPlan[u])
  \/ \E id \in InstanceIds, u \in Users : markDone(id, u)
  \/ \E id \in InstanceIds, u \in Users, days \in SnoozeDays : snooze(id, u, days)
  \/ \E id \in InstanceIds, u \in Users : skip(id, u)
  \/ \E u \in Users : pruneStaleInstances(u)
  \/ \E id \in InstanceIds : TtlMonitorDeletes(id)
  \/ \E n \in {40, 60} : AdvanceDays(n)

SpecRet == InitRet /\ [][NextRet]_vars

\* ------------------------------------------------------------------------
\* Properties of retention
\* ------------------------------------------------------------------------
\* A step of pruneStaleInstances.
PruneStep ==
  /\ ret'.op = "pruneStaleInstances"
  /\ now' = now
  /\ userActions' = userActions
  /\ rules' = rules

\* When instance i reached its terminal status.
ClosedAt(i) == IF i.status = "completed" THEN i.completedAt ELSE i.skippedAt

\* C16: pruneStaleInstances deletes every completed or skipped instance of
\* the owner that was completed or skipped more than 30 days ago, whatever
\* its due date, and deletes no terminal instance completed or skipped
\* within the last 30 days unless it is beyond the 90 day bound.
SoftRetentionByClosingTime ==
  [][PruneStep =>
       \A i \in instances :
         (i.userId = ret'.userId /\ i.status \in {"completed", "skipped"})
           => /\ ClosedAt(i) < addDays(now, 0 - 30) => i \notin instances'
              /\ (/\ ClosedAt(i) >= addDays(now, 0 - 30)
                  /\ i.dueDate >= addDays(now, 0 - 90)
                  /\ i.createdAt >= addDays(now, 0 - 90))
                   => i \in instances']_vars

\* C17: pruneStaleInstances deletes a pending or snoozed instance only if it
\* is more than 90 days old (by its due date), deletes every instance of the
\* owner that is more than 90 days old whatever its status, deletes nothing
\* of another owner and adds nothing.
HardRetention ==
  [][PruneStep =>
       (/\ instances' \subseteq instances
        /\ \A i \in instances :
             /\ i.userId # ret'.userId => i \in instances'
             /\ (/\ i.userId = ret'.userId
                 /\ i.status \in {"pending", "snoozed"}
                 /\ i \notin instances')
                  => i.dueDate < addDays(now, 0 - 90)
             /\ (i.userId = ret'.userId /\ i.dueDate < addDays(now, 0 - 90))
                  => i \notin instances')]_vars

\* pruneStaleInstances deleted a pending instance more than 90 days old and
\* kept a pending instance of the owner more than 30 days old, and an
\* instance of the other owner; no instance had ever been acted on.
OldPendingPrunedRecentKept ==
  /\ ret.op = "pruneStaleInstances"
  /\ ret.result > 0
  /\ userActions = 0
  /\ \E i \in instances :
       /\ i.userId = ret.userId
       /\ i.status = "pending"
       /\ i.dueDate < addDays(now, 0 - 30)
  /\ \A i \in instances : i.userId = ret.userId => i.dueDate >= addDays(now, 0 - 90)
  /\ \E i \in instances : i.userId # ret.userId

\* C18: every due date computeFollowUpDues uses is the resolved anchor plus
\* a whole, non-negative number of intervals: each date of the list returned
\* is, for one of the offsets, that many days before such a due date, which
\* is never earlier than the anchor.
DuesAreForwardBoundaries ==
  IntervalCallReturned =>
    \A k \in DOMAIN ret.dueDates :
      \E o \in Range(ret.rule.notifyDaysBefore) :
        /\ addDays(ret.dueDates[k], o) >= ResolvedAnchor
        /\ (addDays(ret.dueDates[k], o) - ResolvedAnchor)
             % (ret.rule.intervalDays * TicksPerDay) = 0

\* C19: once the instance of a key has reached completed or skipped, no
\* pending instance of that key exists ever after.
NoResurrection ==
  \A i \in instances : i.status = "pending" => i.instanceKey \notin closedKeys

\* ------------------------------------------------------------------------
\* deleteRule concurrent with materialization
\* ------------------------------------------------------------------------
\* deleteRule, first step: ReminderRule.findOneAndDelete({_id, userId}).
\* Without a rule of that id and owner the call returns false.
DeleteRuleFind(p, ruleId, userId) ==
  /\ procs[p] = Idle
  /\ IF ruleId \in DOMAIN rules /\ rules[ruleId].userId = userId
     THEN /\ rules' = [r \in DOMAIN rules \ {ruleId} |-> rules[r]]
          /\ procs' = [procs EXCEPT ![p] = [pc |-> "deleteMany", op |-> "deleteRule",
                                            arg |-> ruleId, userId |-> userId]]
          /\ ret' = ret
     ELSE /\ rules' = rules
          /\ procs' = procs
          /\ ret' = [op |-> "deleteRule", arg |-> ruleId, userId |-> userId,
                     result |-> FALSE]
  /\ UNCHANGED <<now, contacts, instances, userActions, closedKeys>>

\* deleteRule, second step: ReminderInstance.deleteMany({ruleId}); the call
\* returns true.
DeleteRuleInstances(p) ==
  /\ procs[p].pc = "deleteMany"
  /\ instances' = {i \in instances : i.ruleId # procs[p].arg}
  /\ ret' = [op |-> "deleteRule", arg |-> procs[p].arg, userId |-> procs[p].userId,
             result |-> TRUE]
  /\ procs' = [procs EXCEPT ![p] = Idle]
  /\ UNCHANGED <<now, rules, contacts, userActions, closedKeys>>

NextDel ==
  \/ NextConc
  \/ \E p \in Procs, r \in DOMAIN InitRules, u \in Users : DeleteRuleFind(p, r, u)
  \/ \E p \in Procs : DeleteRuleInstances(p)

SpecDel == Init /\ [][NextDel]_vars

\* C20: when deleteRule has returned true for a rule and no call is in
\* flight any more, no instance of that rule is stored.  (A rule missing
\* from the collection while no deleteRule is in flight is a rule for which
\* deleteRule returned true.)
CascadeLeavesNoInstance ==
  (\A p \in Procs : procs[p] = Idle)
    => \A r \in DOMAIN InitRules \ DOMAIN rules :
         \A i \in instances : i.ruleId # r

\* ------------------------------------------------------------------------
\* A batch cut short: the sweep of one caller, whose bulkWrite may fail
\* after any number of its upserts, with user actions in between
\* ------------------------------------------------------------------------
Sweeper == "request1"

\* The connection to the store fails while the batch is under way: the
\* upserts applied so far stay, the rest is dropped, and the error
\* propagates to the caller.
StorageFailure(p) ==
  /\ procs[p].pc \in {"match", "insert"}
  /\ procs[p].bulkOps # <<>>
  /\ ret' = [op |-> procs[p].op, arg |-> procs[p].arg, plan |-> procs[p].plan,
             windowStart |-> procs[p].windowStart,
             thrown |-> "StorageError"]
  /\ procs' = [procs EXCEPT ![p] = Idle]
  /\ UNCHANGED <<now, rules, contacts, instances, userActions, closedKeys>>

NextRec ==
  \/ \E u \in Users : CallBegin(Sweeper, "materializeUser", u, UserPlan[u])
  \/ UpsertMatch(Sweeper)
  \/ UpsertInsert(Sweeper)
  \/ CallReturn(Sweeper)
  \/ StorageFailure(Sweeper)
  \/ \E id \in InstanceIds, u \in Users : markDone(id, u)
  \/ \E id \in InstanceIds, u \in Users, days \in SnoozeDays : snooze(id, u, days)
  \/ AdvanceClock(1)

SpecRec == Init /\ [][NextRec]_vars

\* The store holds an instance for every due date computed, in the window
\* of the call, for an active rule of the owner whose contact exists.
WindowCovered(store, owner, plan, windowStart) ==
  \A r \in ActiveRulesOf(owner) :
    ~ContactMissing(rules[r], owner) =>
      \A d \in Range(computeDueDates(rules[r], windowStart,
                                     addDays(windowStart, MATERIALIZATION_WINDOW[plan]),
                                     ContactInfo(rules[r].contactId,
                                                 contacts[rules[r].contactId]))) :
        \E i \in store :
          /\ i.instanceKey = generateInstanceKey(r, d)
          /\ i.ruleId = r
          /\ i.userId = owner

\* C21: whatever batches failed part-way before, the store holds one
\* instance per key, no step of a batch changes a stored instance in
\* anything but updatedAt, and when a materializeUser call returns its
\* result the store holds an instance for every in-window due date of
\* every active rule of the owner whose contact exists.
SweepRecovers ==
  /\ []OneInstancePerKey
  /\ [][/\ procs' # procs => ExistingInstancesKept
        /\ (/\ procs[Sweeper] # Idle
            /\ procs'[Sweeper] = Idle
            /\ "result" \in DOMAIN ret')
           => WindowCovered(instances', ret'.arg, ret'.plan, ret'.windowStart)]_vars

\* A sweep has returned that found part of its window stored by a batch
\* that failed earlier the same day, left a completed instance as it was
\* and inserted the rest.
SweepCompletedFailedBatch ==
  /\ ret.op = "materializeUser"
  /\ "result" \in DOMAIN ret
  /\ ret.windowStart = WindowStart(StartTick)
  /\ ret.result.instancesCreated >= 1
  /\ ret.result.instancesUpdated >= 1
  /\ procs[Sweeper] = Idle
  /\ \E i, j \in instances :
       /\ i.userId = ret.arg
       /\ j.userId = ret.arg
       /\ i.status = "completed"
       /\ i.createdAt < j.createdAt
       /\ j.createdAt = j.updatedAt

\* ------------------------------------------------------------------------
\* Edits of what the materializer reads: a new interaction moves the
\* anchor of a contact, updateRule changes a rule
\* ------------------------------------------------------------------------
\* How many edits (interactions logged, rules updated) the users make in a
\* behaviour; userActions counts them.
MaxEdits == 2

\* InteractionService.create for the service of user userId: the contact
\* must be the user's; the interaction is saved and the contact's
\* lastContactedAt set to its occurredAt.  The Interaction collection is
\* read by nothing else here, so the saved document appears as the result
\* only.
createInteraction(contactId, userId, occurredAt) ==
  /\ userActions < MaxEdits
  /\ userActions' = userActions + 1
  /\ IF contactId \in DOMAIN contacts /\ contacts[contactId].userId = userId
     THEN /\ contacts' = [contacts EXCEPT ![contactId].lastContactedAt = occurredAt]
          /\ ret' = [op |-> "createInteraction", contactId |-> contactId,
                     userId |-> userId,
                     result |-> [userId |-> userId, contactId |-> contactId,
                                 occurredAt |-> occurredAt]]
     ELSE /\ contacts' = contacts
          /\ ret' = [op |-> "createInteraction", contactId |-> contactId,
                     userId |-> userId, thrown |-> "NotFound"]
  /\ UNCHANGED <<now, rules, instances, procs, closedKeys>>

\* ReminderService.updateRule: findOneAndUpdate({_id, userId}, {$set: updates},
\* {new: true}); when a rule was found, materializeRule for it, and the
\* updated rule is returned; null (the empty sequence) otherwise.
updateRule(ruleId, userId, updates, plan) ==
  /\ userActions < MaxEdits
  /\ userActions' = userActions + 1
  /\ IF ruleId \in DOMAIN rules /\ rules[ruleId].userId = userId
     THEN LET rule == [f \in DOMAIN rules[ruleId] |->
                         IF f \in DOMAIN updates THEN updates[f] ELSE rules[ruleId][f]]
              updated == [rules EXCEPT ![ruleId] = rule]
              st == StageRule(ruleId, plan, updated, contacts, now)
              w == BulkWrite([store |-> instances, upserted |-> 0, modified |-> 0],
                             st.bulkOps)
          IN  /\ rules' = updated
              /\ instances' = w.store
              /\ ret' = [op |-> "updateRule", arg |-> ruleId, userId |-> userId,
                         updates |-> updates, plan |-> plan,
                         windowStart |-> WindowStart(now),
                         materialized |-> MaterializationResult(st, w.upserted, w.modified),
                         result |-> <<rule>>]
     ELSE /\ rules' = rules
          /\ instances' = instances
          /\ ret' = [op |-> "updateRule", arg |-> ruleId, userId |-> userId,
                     updates |-> updates, plan |-> plan, result |-> <<>>]
  /\ UNCHANGED <<now, contacts, procs, closedKeys>>

\* The updates tried: switching a rule off and on, another interval.
RuleUpdates == {[isActive |-> FALSE], [isActive |-> TRUE], [intervalDays |-> 14]}

\* occurredAt of a new interaction: now (the default) or three days back.
OccurredAts == {now, addDays(now, -3)}

NextEdit ==
  \/ \E u \in Users : materializeUser(u, UserPlan[u])
  \/ \E c \in ContactIds : \E plan \in ContactOwnerPlans(c) : rematerializeForContact(c, plan)
  \/ \E c \in ContactIds, u \in Users, occurredAt \in OccurredAts :
       createInteraction(c, u, occurredAt)
  \/ \E r \in DOMAIN rules, u \in Users, updates \in RuleUpdates :
       updateRule(r, u, updates, UserPlan[u])

SpecEdit == Init /\ [][NextEdit]_vars

\* The follow_up rules of a contact that count from its last contact.
LastContactRulesOf(contactId) ==
  {r \in DOMAIN rules : /\ rules[r].contactId = contactId
                        /\ rules[r].type = "follow_up"
                        /\ rules[r].isActive
                        /\ rules[r].intervalAnchor = "last_contact"}

\* C22: when InteractionService.create has logged an interaction for a
\* contact and set its lastContactedAt, the store holds, for every active
\* follow_up rule of the contact anchored on the last contact, an instance
\* for every due date computed from the new anchor in the window of the
\* owner.
InteractionRematerializes ==
  [][(/\ ret'.op = "createInteraction"
      /\ "result" \in DOMAIN ret'
      /\ now' = now
      /\ instances' = instances
      /\ rules' = rules)
     => \A r \in LastContactRulesOf(ret'.contactId) :
          \A d \in Range(computeDueDates(rules[r], WindowStart(now),
                                         WindowEnd(now, UserPlan[ret'.userId]),
                                         ContactInfo(ret'.contactId,
                                                     contacts'[ret'.contactId]))) :
            \E i \in instances' : i.instanceKey = generateInstanceKey(r, d)]_vars

\* A step in which a materialization entry point ran: called by itself or
\* by updateRule.
MaterializingStep ==
  /\ now' = now
  /\ \/ ret'.op \in MaterializationOps
     \/ ret'.op = "updateRule" /\ "materialized" \in DOMAIN ret'

\* C24: a materialization (materializeUser, rematerializeForContact, or
\* the materializeRule that updateRule runs) inserts instances of active
\* rules only.
OnlyActiveRulesMaterialized ==
  [][MaterializingStep =>
       \A i \in InsertedBy(instances, instances') : rules'[i.ruleId].isActive]_vars

\* C28: a materialization, called by itself or by updateRule, leaves every
\* stored instance in the store, with its due date and all its fields but
\* updatedAt, also when the anchor of the contact or the schedule of the
\* rule has changed since the instance was inserted.
MaterializationOnlyInserts ==
  [][MaterializingStep => ExistingInstancesKept]_vars

\* The due dates a rule yields now, in the window of its owner.
CurrentDueDates(r) ==
  Range(computeDueDates(rules[r], WindowStart(now),
                        WindowEnd(now, UserPlan[rules[r].userId]),
                        ContactInfo(rules[r].contactId, contacts[rules[r].contactId])))

\* After a change of anchor or schedule a materialization has inserted
\* instances of a rule next to a pending instance that the rule no longer
\* yields.
FormerScheduleInstancesRemain ==
  /\ \/ ret.op = "rematerializeForContact" /\ ret.result.instancesCreated > 0
     \/ ret.op = "updateRule" /\ ret.updates = [intervalDays |-> 14]
                              /\ ret.materialized.instancesCreated > 0
  /\ \E i, j \in instances :
       /\ i.ruleId = j.ruleId
       /\ ~ContactMissing(rules[i.ruleId], i.userId)
       /\ i.status = "pending"
       /\ i.dueDate \notin CurrentDueDates(i.ruleId)
       /\ j.dueDate \in CurrentDueDates(j.ruleId)

\* ------------------------------------------------------------------------
\* The queue over the days: the store of SpecQ, snoozes, and a clock that
\* runs past the end of a snooze
\* ------------------------------------------------------------------------
NextSnooze ==
  \/ \E u \in Users, includeOverdue \in BOOLEAN, skipScoring \in BOOLEAN,
        tie \in TieOrders :
       getTodayQueue(u, UserPlan[u], Unset, includeOverdue, skipScoring, tie)
  \/ \E id \in DueTodayIds, u \in Users, days \in SnoozeDays : snooze(id, u, days)
  \/ \E id \in DueTodayIds, u \in Users : unsnooze(id, u)
  \/ \E n \in {40, 60} : AdvanceDays(n)

SpecSnooze == InitQ /\ [][NextSnooze]_vars

\* The snoozed instances of a user whose snooze has run out, due today or
\* before (today, when overdue ones are not asked for).
LapsedSnoozes(userId, includeOverdue) ==
  {i \in instances : /\ i.userId = userId
                     /\ i.status = "snoozed"
                     /\ i.snoozedUntil <= now
                     /\ DayOf(i.dueDate) <= DayOf(now)
                     /\ (~includeOverdue => DayOf(i.dueDate) = DayOf(now))}

\* C23: a scored getTodayQueue call returns no instance that is snoozed
\* until a time still to come, and it counts, next to the pending instances
\* of the selection, the snoozed instances whose snoozedUntil has passed.
SnoozeSuppressionLapses ==
  [][ScoredQueueStep =>
       (/\ \A i \in instances :
             (i.userId = ret'.userId /\ i.status = "snoozed" /\ now < i.snoozedUntil)
               => \A k \in 1..Len(ret'.result.items) : ret'.result.items[k].id # i.id
        /\ ret'.result.total
             = Cardinality(Selection(ret'.userId, ret'.includeOverdue)
                             \cup LapsedSnoozes(ret'.userId, ret'.includeOverdue)))]_vars

\* ------------------------------------------------------------------------
\* Properties of the queue without scoring, and of repeated evaluation
\* ------------------------------------------------------------------------
\* C25: a getTodayQueue call with skipScoring reports as total the number
\* of all instances of the selection, however many, and capped exactly when
\* that number exceeds the cap.
UnscoredTotalUncapped ==
  [][(ret' # ret /\ ret'.op = "getTodayQueue" /\ ret'.skipScoring) =>
       (/\ ret'.result.total = Cardinality(Selection(ret'.userId, ret'.includeOverdue))
        /\ ret'.result.capped
             <=> (Cardinality(Selection(ret'.userId, ret'.includeOverdue))
                    > TierCap(ret'.plan)))]_vars

\* The results getTodayQueue may return in the present state.
QueueOutcomes(userId, plan, includeOverdue, skipScoring) ==
  {IF skipScoring
   THEN UnscoredQueue(instances, userId, AppliedCap(Unset, plan), includeOverdue, now, tie)
   ELSE ScoredQueue(instances, userId, AppliedCap(Unset, plan), includeOverdue, now, tie) :
     tie \in TieOrders}

\* C26: a getTodayQueue call that follows an evaluation with the same
\* user, tier and options over the same store at the same time returns the
\* same result: the same items in the same order.
QueueDeterministic ==
  [][(/\ ret.op = "getTodayQueue"
      /\ ret'.op = "getTodayQueue"
      /\ ret'.userId = ret.userId
      /\ ret'.plan = ret.plan
      /\ ret'.includeOverdue = ret.includeOverdue
      /\ ret'.skipScoring = ret.skipScoring
      /\ ret.result \in QueueOutcomes(ret.userId, ret.plan, ret.includeOverdue,
                                      ret.skipScoring))
     => ret'.result.items = ret.result.items]_vars

\* ------------------------------------------------------------------------
\* Further properties of the recurrence calculator
\* ------------------------------------------------------------------------
\* A (month, day) that no year has.
ImpossibleFixedDate(fixedDate) ==
  /\ fixedDate # <<>>
  /\ \A y \in {EpochYear, EpochYear + 1} : fixedDate[2] > DaysInMonth(y, fixedDate[1])

\* C27: for a fixed-date rule whose (month, day) no year has,
\* computeDueDates returns no date.
ImpossibleDateYieldsNoDates ==
  (/\ ret.op = "computeDueDates"
   /\ ImpossibleFixedDate(ret.rule.fixedDate))
    => ret.dueDates = <<>>

\* C30: in a computeFollowUpDues call with intervalDays >= 1 the first
\* candidate, found by integer division, is not before windowStart and at
\* most one interval after it, so the catch-up loop makes no turn; and the
\* emission loop makes at most (days of the window) / intervalDays + 1
\* turns, none for a due date after windowEnd: the list returned has at
\* most that many dates per offset, none after windowEnd.
FollowUpLoopsBounded ==
  (IntervalCallReturned /\ ret.rule.intervalDays >= 1) =>
    (/\ ~isBefore(FirstDueDate(ResolvedAnchor, ret.windowStart, ret.rule.intervalDays),
                  ret.windowStart)
     /\ ~isAfter(FirstDueDate(ResolvedAnchor, ret.windowStart, ret.rule.intervalDays),
                 addDays(ret.windowStart, ret.rule.intervalDays))
     /\ CatchUp(FirstDueDate(ResolvedAnchor, ret.windowStart, ret.rule.intervalDays),
                ret.windowStart, ret.rule.intervalDays)
          = FirstDueDate(ResolvedAnchor, ret.windowStart, ret.rule.intervalDays)
     /\ Len(ret.dueDates)
          <= Len(ret.rule.notifyDaysBefore)
               * (MATERIALIZATION_WINDOW[ret.plan] \div ret.rule.intervalDays + 1)
     /\ \A k \in 1..Len(ret.dueDates) : ~isAfter(ret.dueDates[k], ret.windowEnd))

\* A call has returned several dates for a rule whose anchor lies more than
\* a year before the window.
OldAnchorCallReturned ==
  /\ IntervalCallReturned
  /\ differenceInDays(ret.windowStart, ResolvedAnchor) > 365
  /\ Len(ret.dueDates) > Len(ret.rule.notifyDaysBefore)

\* ------------------------------------------------------------------------
\* Two owners: each materializes, acts on instances and deletes rules,
\* under its own id, with the ids of the other's instances and rules too
\* ------------------------------------------------------------------------
Deleter == "request1"

NextOwn ==
  \/ \E u \in Users : materializeUser(u, UserPlan[u])
  \/ \E id \in InstanceIds, u \in Users : markDone(id, u)
  \/ \E id \in InstanceIds, u \in Users, days \in SnoozeDays : snooze(id, u, days)
  \/ \E id \in InstanceIds, u \in Users : unsnooze(id, u)
  \/ \E id \in InstanceIds, u \in Users : skip(id, u)
  \/ \E r \in DOMAIN InitRules, u \in Users : DeleteRuleFind(Deleter, r, u)
  \/ DeleteRuleInstances(Deleter)

SpecOwn == Init /\ [][NextOwn]_vars

\* A step in which deleteRule(ruleId, userId) is called.
DeleteRuleCalled(ruleId, userId) ==
  /\ procs[Deleter] = Idle
  /\ \/ /\ procs'[Deleter] # Idle
        /\ procs'[Deleter].op = "deleteRule"
        /\ procs'[Deleter].arg = ruleId
        /\ procs'[Deleter].userId = userId
     \/ /\ procs' = procs
        /\ ret' # ret
        /\ ret'.op = "deleteRule"
        /\ ret'.arg = ruleId
        /\ ret'.userId = userId

\* The owner under whose id the step was issued.
ActingOwnerIs(u) ==
  \/ InstanceActionStep /\ ret'.userId = u
  \/ ret'.op = "materializeUser" /\ ret' # ret /\ ret'.arg = u
  \/ \E r \in DOMAIN InitRules : DeleteRuleCalled(r, u)
  \/ procs[Deleter] # Idle /\ procs'[Deleter] = Idle /\ procs[Deleter].userId = u

\* C29: markDone, snooze, unsnooze and skip called for an instance of
\* another owner return null and change nothing; deleteRule called for a
\* rule of another owner returns false and deletes neither a rule nor an
\* instance; and a step issued under one owner leaves every instance of
\* another owner stored, with its status.
OwnerIsolation ==
  [][/\ InstanceActionStep =>
          \A i \in instances :
            (i.id = ret'.instanceId /\ i.userId # ret'.userId)
              => (ret'.result = <<>> /\ instances' = instances)
     /\ \A r \in DOMAIN rules, u \in Users :
          (DeleteRuleCalled(r, u) /\ rules[r].userId # u)
            => (/\ ret'.op = "deleteRule"
                /\ ret'.result = FALSE
                /\ procs' = procs
                /\ rules' = rules
                /\ instances' = instances)
     /\ \A u \in Users :
          ActingOwnerIs(u) =>
            \A i \in instances :
              i.userId # u => \E j \in instances' : j.id = i.id /\ j.status = i.status]_vars

\* markDone was called for a pending instance under the id of another
\* owner: it returned null and the instance is pending still.
ForeignMarkDoneRejected ==
  /\ ret.op = "markDone"
  /\ ret.result = <<>>
  /\ \E i \in instances :
       /\ i.id = ret.instanceId
       /\ i.userId # ret.userId
       /\ i.status = "pending"

====
